---- MODULE Spec2Model ----
(***************************************************************************)
(* Execution and compliance layer of the options trading bot:              *)
(*   - the option-symbol codec   (strategy.py, market_data.py)             *)
(*   - the position / day-trade ledger   (trade_tracker.py)                *)
(*   - the brokerage client   (execution.py)                               *)
(*   - the coordinator paths   (opportunity_finder.py, main.py)            *)
(*                                                                         *)
(* Text is modelled as sequences of one-character strings.  Times are      *)
(* integer clock ticks, TicksPerDay ticks to a calendar day.               *)
(***************************************************************************)
EXTENDS Integers, Sequences, FiniteSets, TLC

VARIABLES
    \* ---- option-symbol codec ----
    cx_pc,        \* "idle" | "start" | "encoded" | "decoded"
    cx_in,        \* the instrument handed to the encoder
    cx_sym,       \* the encoded option symbol
    cx_out,       \* the decoded instrument, or DecodeError
    \* ---- ledger and coordinator ----
    now,          \* the wall clock, in ticks
    file,         \* trade_tracker_data.json: the persisted snapshot
    singleton,    \* trade_tracker._trade_tracker: None or the in-memory ledger
    total_equity, \* account equity reported by get_account_balances
    appended,     \* history: day-trade records appended so far
    closes,       \* history: the close_position calls of the last handler
    last_append,  \* history: the last day-trade record appended
    cdts,         \* history: the can_day_trade() calls of the last handler
    order_effect, \* history: the last broker order and what followed it
    \* ---- ledger persistence ----
    st_call,      \* history: the last ledger call and how its write went
    st_saved,     \* history: the ledger image of the last completed write
    tk_call,      \* history: the last call on the tracker and what it returned
    \* ---- trade execution ----
    ex_trade,     \* history: the last trade attempt, its requests and result
    \* ---- brokerage client ----
    USE_SANDBOX,
    ENABLE_SANDBOX_FALLBACK,
    max_retries,  \* config.MAX_RETRIES as the process was started with
    gw_pc,        \* position inside place_option_order / place_order
    gw_req,       \* the arguments of the place_option_order call
    gw_option_symbol, \* the local option_symbol: the symbol to submit
    gw_attempt,   \* loop variable of the running retry loop
    gw_posts,     \* POSTs issued by the current place_order call
    gw_gets,      \* GETs issued by get_order_status for this order
    gw_waits,     \* sleeps of place_order's retry loop, in seconds, in order
    gw_resps,     \* HTTP answers received by the current place_order call
    gw_unresolved,\* the instrument could not be resolved against live data
    gw_order_result, \* what place_order returned
    gw_result,    \* what place_option_order returned to its caller
    gw_chain,     \* history: the last resolution of a symbol against the chain
    rq_call,      \* history: the last retry loop run to its end and its answers
    bot           \* gradio_interface: bot_running, bot_thread and the threads started

codecVars  == <<cx_pc, cx_in, cx_sym, cx_out>>
ledgerVars == <<now, file, singleton, total_equity, appended, closes, last_append,
                cdts, order_effect>>
storeVars  == <<st_call, st_saved, tk_call>>
execVars   == <<ex_trade>>
configVars == <<USE_SANDBOX, ENABLE_SANDBOX_FALLBACK, max_retries>>
gwVars     == <<gw_pc, gw_req, gw_option_symbol, gw_attempt, gw_posts, gw_gets,
                gw_waits, gw_resps, gw_unresolved, gw_order_result, gw_result,
                gw_chain, rq_call>>
botVars    == <<bot>>
vars       == <<codecVars, ledgerVars, storeVars, execVars, configVars, gwVars,
                botVars>>

(***************************************************************************)
(* Text helpers                                                            *)
(***************************************************************************)
DigitChars == <<"0", "1", "2", "3", "4", "5", "6", "7", "8", "9">>

\* str.isdigit() on one character
IsDigit(c) == \E i \in 1..10 : DigitChars[i] = c

DigitVal(c) == (CHOOSE i \in 1..10 : DigitChars[i] = c) - 1

\* s[a:b] of Python, 0-based, clipped to the length of s
Slice(s, a, b) ==
    LET hi == IF b < Len(s) THEN b ELSE Len(s)
    IN  IF a >= hi THEN <<>> ELSE SubSeq(s, a + 1, hi)

\* s[a:]
SliceFrom(s, a) == Slice(s, a, Len(s))

\* s[-n:]
LastN(s, n) == IF n >= Len(s) THEN s ELSE SubSeq(s, Len(s) - n + 1, Len(s))

RECURSIVE DigitsOf(_)
\* str(n) for n >= 0
DigitsOf(n) ==
    IF n < 10 THEN <<DigitChars[n + 1]>>
    ELSE Append(DigitsOf(n \div 10), DigitChars[(n % 10) + 1])

RECURSIVE Zeros(_)
Zeros(n) == IF n <= 0 THEN <<>> ELSE <<"0">> \o Zeros(n - 1)

\* f"{n:0wd}": at least w characters, zero padded, longer when n needs more
Pad(n, w) == LET d == DigitsOf(n) IN Zeros(w - Len(d)) \o d

ParseError == -1

RECURSIVE DigitsValue(_)
DigitsValue(s) ==
    IF s = <<>> THEN 0
    ELSE 10 * DigitsValue(SubSeq(s, 1, Len(s) - 1)) + DigitVal(s[Len(s)])

\* int(s) / float(s) on text made of letters and digits: a number when s is
\* a non-empty run of digits, ValueError (ParseError) otherwise
ParseInt(s) ==
    IF s # <<>> /\ \A i \in 1..Len(s) : IsDigit(s[i])
    THEN DigitsValue(s) ELSE ParseError

\* index of the first digit of s (1-based), Len(s)+1 when there is none
FirstDigit(s) ==
    IF \E i \in 1..Len(s) : IsDigit(s[i])
    THEN CHOOSE i \in 1..Len(s) :
            IsDigit(s[i]) /\ \A j \in 1..(i - 1) : ~IsDigit(s[j])
    ELSE Len(s) + 1

(***************************************************************************)
(* Option-symbol codec                                                     *)
(***************************************************************************)
\* Strikes are kept in thousandths of the currency unit (450.00 = 450000).
StrikeMillis == {500, 1000, 2010, 64000, 64100, 64500, 450000}

\* The strikes k of StrikeMillis for which binary64 arithmetic on
\* s = float(k / 1000) comes out just below the exact value, so that int()
\* drops one thousandth: int((s - int(s)) * 1000) is one less than k % 1000
\* and int(s * 1000) is one less than k
\* (2.01 * 1000 = 2009.9999999999998, 64.1 * 1000 = 64099.99999999999).
F64TruncLoss == {2010, 64100}

\* strike_cents of select_option_contract, evaluated in binary64
F64FracMillis(k) == (k % 1000) - (IF k \in F64TruncLoss THEN 1 ELSE 0)

\* int(strike * 1000) of _generate_simulated_options, evaluated in binary64
F64Millis(k) == k - (IF k \in F64TruncLoss THEN 1 ELSE 0)

Underlyings == { <<"X">>, <<"S", "P", "Y">>, <<"A", "A", "P", "L">> }

Expirations == { [year |-> 2025, month |-> 3,  day |-> 21],
                 [year |-> 2025, month |-> 12, day |-> 5],
                 [year |-> 2099, month |-> 1,  day |-> 1] }

OptionTypes == {"call", "put"}

ValidInstruments ==
    [underlying : Underlyings, expiration : Expirations,
     option_type : OptionTypes, strike : StrikeMillis]

\* select_option_contract, from "expiry_code = ..." on: symbol + YYMMDD + C/P
\* + strike_dollars:05d + strike_cents:03d
EncodeOptionSymbol(x) ==
    LET expiry_code    == Pad(x.expiration.year % 100, 2)
                          \o Pad(x.expiration.month, 2)
                          \o Pad(x.expiration.day, 2)
        option_code    == IF x.option_type = "call" THEN <<"C">> ELSE <<"P">>
        strike_dollars == x.strike \div 1000
        strike_cents   == F64FracMillis(x.strike)
        strike_padded  == Pad(strike_dollars, 5) \o Pad(strike_cents, 3)
    IN  x.underlying \o expiry_code \o option_code \o strike_padded

\* _generate_simulated_options: symbol + YYMMDD + C/P + int(strike*1000):08d
SimulatedOptionSymbol(x) ==
    x.underlying \o Pad(x.expiration.year % 100, 2) \o Pad(x.expiration.month, 2)
    \o Pad(x.expiration.day, 2)
    \o (IF x.option_type = "call" THEN <<"C">> ELSE <<"P">>)
    \o Pad(F64Millis(x.strike), 8)

\* validate_option_symbol's "return False, None, None" of the except branch
DecodeError ==
    [ok |-> FALSE, underlying |-> <<>>,
     expiration |-> [year |-> 0, month |-> 0, day |-> 0],
     option_type |-> "", strike |-> 0]

\* validate_option_symbol, the part that extracts the option parameters once
\* the underlying symbol is known
ParseOptionSymbol(option_symbol, underlying_symbol) ==
    LET date_start     == Len(underlying_symbol)
        date_portion   == Slice(option_symbol, date_start, date_start + 6)
        option_type    == Slice(option_symbol, date_start + 6, date_start + 7)
        strike_portion == SliceFrom(option_symbol, date_start + 7)
        year   == ParseInt(<<"2", "0">> \o Slice(date_portion, 0, 2))
        month  == ParseInt(Slice(date_portion, 2, 4))
        day    == ParseInt(Slice(date_portion, 4, 6))
        strike == ParseInt(strike_portion)
    IN  IF ParseError \in {year, month, day, strike}
        THEN DecodeError
        ELSE [ok |-> TRUE,
              underlying  |-> underlying_symbol,
              expiration  |-> [year |-> year, month |-> month, day |-> day],
              option_type |-> IF option_type = <<"C">> THEN "call" ELSE "put",
              strike      |-> strike]

\* validate_option_symbol called without underlying_symbol: the underlying is
\* the text in front of the first digit
DecodeOptionSymbol(option_symbol) ==
    ParseOptionSymbol(option_symbol,
                      Slice(option_symbol, 0, FirstDigit(option_symbol) - 1))

NoInstrument ==
    [underlying |-> <<>>, expiration |-> [year |-> 0, month |-> 0, day |-> 0],
     option_type |-> "", strike |-> 0]

CodecIdle ==
    cx_pc = "idle" /\ cx_in = NoInstrument /\ cx_sym = <<>> /\ cx_out = DecodeError

CodecInit ==
    /\ cx_pc = "start"
    /\ cx_in \in ValidInstruments
    /\ cx_sym = <<>>
    /\ cx_out = DecodeError

\* select_option_contract encodes the strike it chose: round(current_price *
\* 1.05) or round(current_price * 0.95), a whole number
Encode ==
    /\ cx_pc = "start"
    /\ cx_in.strike % 1000 = 0
    /\ cx_sym' = EncodeOptionSymbol(cx_in)
    /\ cx_pc' = "encoded"
    /\ UNCHANGED <<cx_in, cx_out, ledgerVars, configVars, botVars, gwVars, storeVars, execVars>>

\* _generate_simulated_options encodes strikes round(current_price * f, 2),
\* two decimals
EncodeSimulated ==
    /\ cx_pc = "start"
    /\ cx_in.strike % 10 = 0
    /\ cx_sym' = SimulatedOptionSymbol(cx_in)
    /\ cx_pc' = "encoded"
    /\ UNCHANGED <<cx_in, cx_out, ledgerVars, configVars, botVars, gwVars, storeVars, execVars>>

Decode ==
    /\ cx_pc = "encoded"
    /\ cx_out' = DecodeOptionSymbol(cx_sym)
    /\ cx_pc' = "decoded"
    /\ UNCHANGED <<cx_in, cx_sym, ledgerVars, configVars, botVars, gwVars, storeVars, execVars>>


(***************************************************************************)
(* Position / day-trade ledger (class TradeTracker)                        *)
(***************************************************************************)
TicksPerDay == 2

\* timedelta(days=7) of cleanup_expired_day_trades
WindowDays == 7

WindowTicks == WindowDays * TicksPerDay

\* comparing the timestamps themselves instead of their dates
DateOfTimestamp(t) == t

\* datetime.date()
DateOf(t) == t \div TicksPerDay

\* TradeTracker.__init__(..., max_trades=3).  The limit is a constructor
\* argument; the callers pass config.MAX_DAILY_TRADES, which the operator can
\* set.  The ledger is run with the default of the class.
max_trades == 3

Min(a, b) == IF a < b THEN a ELSE b
Max(a, b) == IF a > b THEN a ELSE b

\* an isoformat() of the date alone, which loses the time of day
IsoFormatOfDate(t) == <<"iso", DateOf(t) * TicksPerDay>>

\* datetime.isoformat() and datetime.fromisoformat()
IsoFormat(t) == <<"iso", t>>
FromIsoFormat(s) == s[2]

\* os.path.exists(data_file) is false
\* corrupt: "" for a file json.load and the conversions accept; "json" for
\* one json.load rejects; "trades" / "day_trades" for one whose entry_time or
\* exit_time text fromisoformat rejects, in a position / in a day trade
NoFile == [exists |-> FALSE, corrupt |-> "", trades |-> <<>>, day_trades |-> <<>>]

\* The dict written by save_data: datetimes become ISO strings
ToJson(trades, day_trades) ==
    [exists     |-> TRUE,
     corrupt    |-> "",
     trades     |-> [s \in DOMAIN trades |->
                        [trades[s] EXCEPT !.entry_time = IsoFormat(@)]],
     day_trades |-> [i \in 1..Len(day_trades) |->
                        [day_trades[i] EXCEPT !.entry_time = IsoFormat(@),
                                              !.exit_time  = IsoFormat(@)]]]

NoAppend == [by |-> "none", side |-> "none", same_day_open |-> FALSE]

NoOrder == [placed |-> FALSE, error |-> FALSE, simulated |-> FALSE,
            mutated |-> FALSE, caller |-> "none", duration |-> ""]

\* nothing written yet
NoSave == [written |-> FALSE, trades |-> <<>>, day_trades |-> <<>>]

EmptyHistory ==
    [closes |-> <<>>, last_append |-> NoAppend, appends |-> 0,
     cdts |-> <<>>, order_effect |-> NoOrder, saved |-> NoSave, writes |-> 0,
     requests |-> <<>>, executed_trades |-> <<>>]

\* What place_option_order returns: error = "" when the dict has no 'error'
\* key, status = "" when it has no 'status' key
\* reason: where the text after the error prefix comes from
Result(error, status, simulated, reason) ==
    [error |-> error, status |-> status, simulated |-> simulated,
     reason |-> reason]

NoResult == Result("", "", FALSE, "")

\* A tracker instance W, together with the data file it reads and writes and
\* the history of the calls made on it:
\*   trades, day_trades : the in-memory ledger
\*   file               : content of data_file
\*   ret, count         : return value of the last ledger call
\*   result             : order result returned by the last broker call

\*   disk               : how a write to data_file ends: "ok"; "fail" when
\*                        open() raises; "partial" when json.dump raises
\*                        after open(data_file, 'w') emptied the file;
\*                        "crash" when the process stops inside json.dump

\* the except branch of load_data skipped
LoadFailedKeep(W) == W

\* the except branch of load_data: "Initialize with empty data"
LoadFailed(W) == [W EXCEPT !.trades = <<>>, !.day_trades = <<>>]

\* load_data assigns self.trades, converts its entry times, assigns
\* self.day_trades, converts their times; an exception at any of these points
\* enters the except branch
load_data(W) ==
    IF ~W.file.exists THEN W
    ELSE IF W.file.corrupt = "json" THEN LoadFailed(W)
    ELSE
      LET W1 == [W EXCEPT !.trades = W.file.trades]
          W2 == [W1 EXCEPT
                   !.trades = [s \in DOMAIN W.file.trades |->
                                 [W.file.trades[s] EXCEPT
                                     !.entry_time = FromIsoFormat(@)]],
                   !.day_trades = W.file.day_trades]
          W3 == [W2 EXCEPT
                   !.day_trades = [i \in 1..Len(W.file.day_trades) |->
                                 [W.file.day_trades[i] EXCEPT
                                     !.entry_time = FromIsoFormat(@),
                                     !.exit_time  = FromIsoFormat(@)]]]
      IN  IF W.file.corrupt = "trades" THEN LoadFailed(W1)
          ELSE IF W.file.corrupt = "day_trades" THEN LoadFailed(W2)
          ELSE W3

\* data_file after open(data_file, 'w') and an unfinished json.dump
Truncated == [exists |-> TRUE, corrupt |-> "json", trades |-> <<>>, day_trades |-> <<>>]

\* an except branch that puts the instance back to what the file holds
SaveFailedRollback(W) ==
    LET R == [W EXCEPT !.hist.writes = @ + 1]
    IN  IF R.file.exists THEN load_data(R) ELSE LoadFailed(R)

\* save_data's except branch: logger.error, then the method returns
SaveFailed(W) == [W EXCEPT !.hist.writes = @ + 1]

\* a save_data that writes nothing
save_data_skipped(W) == W

\* save_data; W.disk says what becomes of the write:
\*   "ok"      open and json.dump go through
\*   "fail"    open raises, the file is untouched
\*   "partial" json.dump raises after open has truncated the file
\*   "crash"   the process stops between open and the end of json.dump
save_data(W) ==
    CASE W.disk = "ok" ->
            [W EXCEPT !.file = ToJson(W.trades, W.day_trades),
                      !.hist.writes = @ + 1,
                      !.hist.saved = [written |-> TRUE, trades |-> W.trades,
                                      day_trades |-> W.day_trades]]
      [] W.disk = "fail" -> SaveFailed(W)
      [] W.disk = "partial" -> SaveFailed([W EXCEPT !.file = Truncated])
      [] OTHER -> [W EXCEPT !.file = Truncated, !.hist.writes = @ + 1]

\* a cleanup that never evicts
cleanup_keep_all(W, t) == W

cleanup_expired_day_trades(W, t) ==
    IF W.day_trades = <<>> THEN W
    ELSE LET cutoff_date == t - WindowTicks
             Recent(dt) == dt.exit_time > cutoff_date
             kept == SelectSeq(W.day_trades, Recent)
             W1 == [W EXCEPT !.day_trades = kept]
         IN  IF Len(W.day_trades) # Len(kept) THEN save_data(W1) ELSE W1

\* TradeTracker(...): empty ledger, load_data, cleanup_expired_day_trades
TradeTrackerOn(f, disk, hist, t) ==
    cleanup_expired_day_trades(
        load_data([trades |-> <<>>, day_trades |-> <<>>, file |-> f,
                   disk |-> disk,
                   ret |-> FALSE, count |-> 0, result |-> NoResult,
                   hist |-> hist]), t)

\* the same with a data file that can be written
NewTradeTracker(f, hist, t) == TradeTrackerOn(f, "ok", hist, t)

\* an added lot that takes over the position's timestamp and option data
MergedRestamped(position, contracts, entry_time, option_data) ==
    [entry_time |-> entry_time, contracts |-> position.contracts + contracts,
     option_data |-> option_data]

\* self.trades[symbol]['contracts'] += contracts
Merged(position, contracts, entry_time, option_data) ==
    [position EXCEPT !.contracts = @ + contracts]

add_position(W, symbol, contracts, entry_time, option_data) ==
    save_data(
        IF symbol \in DOMAIN W.trades
        THEN [W EXCEPT !.trades[symbol] =
                 Merged(@, contracts, entry_time, option_data)]
        ELSE [W EXCEPT !.trades =
                [s \in DOMAIN W.trades \cup {symbol} |->
                    IF s = symbol
                    THEN [entry_time  |-> entry_time,
                          contracts   |-> contracts,
                          option_data |-> option_data]
                    ELSE W.trades[s]]])

\* a day-trade dict without the key 'days_to_clear'
NoDaysToClear == -1

\* a close that empties the position whatever was held
RemainingNone(held, contracts) == 0

\* position['contracts'] -= contracts
Remaining(held, contracts) == held - contracts

close_position(W, symbol, contracts, exit_time) ==
    IF symbol \in DOMAIN W.trades
    THEN LET position == W.trades[symbol]
             is_day_trade == DateOf(position.entry_time) = DateOf(exit_time)
             recorded ==
                 IF is_day_trade
                 THEN Append(W.day_trades,
                             [symbol     |-> symbol,
                              entry_time |-> position.entry_time,
                              exit_time  |-> exit_time,
                              contracts  |-> Min(contracts, position.contracts),
                              days_to_clear |-> NoDaysToClear])
                 ELSE W.day_trades
             remaining == Remaining(position.contracts, contracts)
             updated ==
                 IF remaining <= 0
                 THEN [s \in DOMAIN W.trades \ {symbol} |-> W.trades[s]]
                 ELSE [W.trades EXCEPT ![symbol].contracts = remaining]
         IN  save_data(
               [W EXCEPT
                  !.trades = updated,
                  !.day_trades = recorded,
                  !.ret = is_day_trade,
                  !.hist.closes = Append(@,
                      [was_open |-> TRUE,
                       held |-> position.contracts, contracts |-> contracts,
                       entry_time |-> position.entry_time,
                       exit_time |-> exit_time,
                       appended |-> Len(recorded) - Len(W.day_trades),
                       ret |-> is_day_trade]),
                  !.hist.appends = @ + Len(recorded) - Len(W.day_trades),
                  !.hist.last_append =
                      IF is_day_trade
                      THEN [by |-> "close_position", side |-> "sell_to_close",
                            same_day_open |-> TRUE]
                      ELSE @])
    ELSE [W EXCEPT !.ret = FALSE,
                   !.hist.closes = Append(@,
                      [was_open |-> FALSE, held |-> 0, contracts |-> contracts,
                       entry_time |-> 0, exit_time |-> exit_time,
                       appended |-> 0, ret |-> FALSE])]

add_day_trade(W, symbol, contracts, entry_time, exit_time) ==
    save_data(
        [W EXCEPT !.day_trades =
            Append(@, [symbol |-> symbol, entry_time |-> entry_time,
                       exit_time |-> exit_time, contracts |-> contracts,
                       days_to_clear |-> NoDaysToClear]),
                  !.hist.appends = @ + 1])

\* a count taken before the expired records are evicted
get_day_trade_count_stale(W, t) ==
    [cleanup_expired_day_trades(W, t) EXCEPT !.count = Len(W.day_trades)]

get_day_trade_count(W, t) ==
    LET W1 == cleanup_expired_day_trades(W, t)
    IN  [W1 EXCEPT !.count = Len(W1.day_trades)]

can_day_trade(W, t) ==
    LET W1 == get_day_trade_count(W, t)
        result == W1.count < max_trades
    IN  [W1 EXCEPT !.ret = result,
                   !.hist.cdts = Append(@, [before |-> W.day_trades,
                                            at |-> t, result |-> result])]

(***************************************************************************)
(* Coordinator: opportunity_finder.process_opportunities,                  *)
(* execute_opportunity_trade and main.manage_positions                     *)
(***************************************************************************)
\* place_option_order as the coordinator sees it.  Without an option_symbol
\* argument the call returns at once; otherwise the outcome is the broker's.
BrokerOutcomes == {"filled", "simulated", "rejected"}

OrderResultFor(option_symbol, outcome) ==
    IF option_symbol = <<>>
    THEN Result("Option symbol is required", "", FALSE, "")
    ELSE CASE outcome = "filled" ->
                Result("", "ok", FALSE, "")
           [] outcome = "simulated" ->
                Result("", "filled", TRUE, "")
           [] OTHER ->
                Result("Failed to place order", "rejected", FALSE, "")

Mutated(W1, W2) == W1.trades # W2.trades \/ W1.day_trades # W2.day_trades

\* Python's None where a contract text is expected
None == <<"None">>

\* a request to the broker or to the market-data service goes out
Requested(W, request) == [W EXCEPT !.hist.requests = Append(@, request)]

\* an order that is a day order whatever the ledger said
DurationAlwaysDay(day_trade_allowed) == "day"

\* duration = 'day' if day_trade_allowed else 'gtc'
Duration(day_trade_allowed) == IF day_trade_allowed THEN "day" ELSE "gtc"

\* a gate that is never consulted
MarketClosedIgnored(market_open) == FALSE

\* "if not is_market_open()"
MarketClosed(market_open) == ~market_open

execute_opportunity_trade(W, t, ticker, contract, signal, num_contracts, day_trade_allowed, market_open, outcome) ==
    IF MarketClosed(market_open)
    THEN [W EXCEPT !.result = Result("Market is closed", "rejected", FALSE, "")]
    ELSE IF contract = <<>> \/ contract = None \/ Len(contract) < 15
    THEN [W EXCEPT !.result =
            Result("Invalid option contract format", "rejected", FALSE, "")]
    ELSE
      LET quantity == Max(1, num_contracts)
          duration == Duration(day_trade_allowed)
          side == IF signal \in {"SELL_CALL", "SELL_PUT"}
                  THEN "sell_to_close" ELSE "buy_to_open"
          order_result == OrderResultFor(contract, outcome)
          effect == [placed |-> TRUE, error |-> order_result.error # "",
                     simulated |-> order_result.simulated,
                     mutated |-> FALSE, caller |-> "execute_opportunity_trade",
                     duration |-> duration]
          W0 == Requested(W, "place_option_order")
      IN  IF order_result.error # ""
          THEN [W0 EXCEPT !.result = order_result, !.hist.order_effect = effect]
          ELSE IF day_trade_allowed /\ duration = "day"
          THEN LET W1 == add_day_trade(W0, ticker, quantity, t, t)
               IN  [W1 EXCEPT
                      !.result = order_result,
                      !.hist.order_effect = [effect EXCEPT !.mutated = TRUE],
                      !.hist.last_append =
                          [by |-> "add_day_trade", side |-> side,
                           same_day_open |-> ticker \in DOMAIN W.trades]]
          ELSE [W0 EXCEPT !.result = order_result, !.hist.order_effect = effect]

RECURSIVE SortedInsert(_, _)
SortedInsert(sorted, o) ==
    IF sorted = <<>> THEN <<o>>
    ELSE IF Head(sorted).confidence >= o.confidence
         THEN <<Head(sorted)>> \o SortedInsert(Tail(sorted), o)
         ELSE <<o>> \o sorted

RECURSIVE SortByConfidence(_)
\* sorted(opportunities, key=confidence, reverse=True): stable, descending
SortByConfidence(opps) ==
    IF opps = <<>> THEN <<>>
    ELSE SortedInsert(SortByConfidence(SubSeq(opps, 1, Len(opps) - 1)),
                      opps[Len(opps)])

\* the price history process_opportunities gives to select_option_contract
\* ends at 100.00: strike = round(current_price * 1.05) or * 0.95
ContractFor(ticker, signal) ==
    EncodeOptionSymbol(
        [underlying  |-> ticker,
         expiration  |-> [year |-> 2025, month |-> 3, day |-> 21],
         option_type |-> IF signal = "BUY_CALL" THEN "call" ELSE "put",
         strike      |-> IF signal = "BUY_CALL" THEN 105000 ELSE 95000])

RECURSIVE ProcessLoop(_, _, _, _, _, _)
\* the "for opportunity in sorted_opportunities" loop
ProcessLoop(W, opps, t, account_value, pdt_applies, market_open) ==
    IF opps = <<>> THEN W
    ELSE
      LET o == Head(opps)
          rest == Tail(opps)
          contract == IF o.validation = "alternative"
                      THEN o.alternative
                      ELSE ContractFor(o.ticker, o.signal)
          base_contracts == IF o.confidence > 90 THEN 3
                            ELSE IF o.confidence > 80 THEN 2 ELSE 1
          account_scale == Min(3, Max(1, account_value \div 10000))
          num_contracts == base_contracts * account_scale
          priced == Requested(W, "get_latest_price_data")
          validated == Requested(priced, "validate_option_symbol")
          W1 == IF pdt_applies THEN can_day_trade(validated, t) ELSE validated
          day_trade_allowed == ~pdt_applies \/ W1.ret
          W2 == execute_opportunity_trade(W1, t, o.ticker, contract, o.signal,
                    num_contracts, day_trade_allowed, market_open, o.outcome)
          \* "if 'id' in trade_result": the order dict of the broker and the
          \* simulated one both carry an id
          \* "if trade_result and 'error' not in trade_result":
          \* executed_trades.append({...}), then the status request
          W3 == IF W2.result.error = ""
                THEN Requested(
                       [W2 EXCEPT !.hist.executed_trades =
                           Append(@, [ticker |-> o.ticker,
                                      outcome |-> W2.result.status])],
                       "get_order_status")
                ELSE W2
      IN  IF o.confidence < 70
          THEN ProcessLoop(W, rest, t, account_value, pdt_applies, market_open)
          ELSE IF \/ o.price_data # "ok"
                  \/ Len(ContractFor(o.ticker, o.signal)) < 15
          THEN ProcessLoop(priced, rest, t, account_value, pdt_applies, market_open)
          ELSE IF o.validation = "unavailable"
          THEN ProcessLoop(validated, rest, t, account_value, pdt_applies, market_open)
          ELSE ProcessLoop(W3, rest, t, account_value, pdt_applies, market_open)

process_opportunities(W, opportunities, t, account_value, market_open) ==
    LET pdt_applies == account_value < 25000
        balanced == Requested(W, "get_account_balances")
        W1 == IF pdt_applies THEN can_day_trade(balanced, t) ELSE balanced
    IN  ProcessLoop(W1, SortByConfidence(opportunities), t, account_value,
                    pdt_applies, market_open)

\* manage_positions: "Skip if not an option position"
IsOptionPosition(symbol) ==
    /\ Len(symbol) >= 15
    /\ \E i \in 1..Len(LastN(symbol, 9)) : LastN(symbol, 9)[i] \in {"P", "C"}
    /\ \E i \in 1..Len(symbol) : IsDigit(symbol[i])

NoOptionData ==
    [parsed |-> FALSE, underlying_symbol |-> <<>>,
     expiration |-> [year |-> 0, month |-> 0, day |-> 0],
     is_call |-> FALSE, strike_price |-> 0]

\* manage_positions: "Extract option data from the symbol"; a ValueError
\* leaves the position without option data
ParseBrokerSymbol(symbol) ==
    LET found == \E i \in 1..Len(symbol) : symbol[i] = "2"
        \* symbol.find('2'), 0-based
        at == CHOOSE i \in 1..Len(symbol) :
                 symbol[i] = "2" /\ \A j \in 1..(i - 1) : symbol[j] # "2"
        f == at - 1
        underlying_symbol == Slice(symbol, 0, f)
        year  == ParseInt(<<"2", "0">> \o Slice(symbol, f + 1, f + 3))
        month == ParseInt(Slice(symbol, f + 3, f + 5))
        day   == ParseInt(Slice(symbol, f + 5, f + 7))
        is_call == \E i \in 1..Len(LastN(symbol, 9)) : LastN(symbol, 9)[i] = "C"
        strike_price == ParseInt(LastN(symbol, 8))
    IN  IF ~found \/ ParseError \in {year, month, day, strike_price}
        THEN NoOptionData
        ELSE [parsed |-> TRUE, underlying_symbol |-> underlying_symbol,
              expiration |-> [year |-> year, month |-> month, day |-> day],
              is_call |-> is_call, strike_price |-> strike_price]

RECURSIVE ManageLoop(_, _, _)
\* the "for position in positions" loop
ManageLoop(W, positions, t) ==
    IF positions = <<>> THEN W
    ELSE
      LET p == Head(positions)
          rest == Tail(positions)
          W1 == IF p.symbol \notin DOMAIN W.trades
                THEN add_position(W, p.symbol, p.quantity, t,
                                  ParseBrokerSymbol(p.symbol))
                ELSE W
          \* place_option_order(symbol=symbol, side='sell_to_close', ...)
          order_result == OrderResultFor(<<>>, "filled")
          W2 == close_position(W1, p.symbol, p.quantity, t)
          W3 == [W2 EXCEPT
                   !.result = order_result,
                   !.hist.order_effect =
                       [placed |-> TRUE, error |-> order_result.error # "",
                        simulated |-> order_result.simulated,
                        mutated |-> Mutated(W1, W2),
                        caller |-> "manage_positions", duration |-> "day"]]
      IN  IF ~IsOptionPosition(p.symbol) THEN ManageLoop(W, rest, t)
          ELSE IF p.decision = "SELL" THEN ManageLoop(W3, rest, t)
          ELSE ManageLoop(W1, rest, t)

manage_positions(f, hist, positions, t) ==
    ManageLoop(NewTradeTracker(f, hist, t), positions, t)

(***************************************************************************)
(* The scheduler's calls into the coordinator, and the clock               *)
(***************************************************************************)
MaxTime == 2
MaxWindowTime == 16
MaxRecords == 4
MaxOpps == 1
MaxPositions == 1
\* the largest number of contracts held in one position
MaxHeld == 2

SPY == <<"S", "P", "Y">>

\* a contract of the chain that validate_option_symbol offers as alternative
AltContract ==
    EncodeOptionSymbol([underlying |-> SPY,
                        expiration |-> [year |-> 2025, month |-> 3, day |-> 21],
                        option_type |-> "call", strike |-> 100000])

\* The opportunities identify_opportunities hands over, with what the
\* collaborators answer while each is processed:
\*   price_data : get_latest_price_data gives enough history ("ok") or not
\*   validation : validate_option_symbol says valid, offers an alternative,
\*                or reports the symbol unavailable
\*   outcome    : what place_option_order returns
Opp(confidence, signal, price_data, validation, outcome) ==
    [ticker |-> SPY, signal |-> signal, confidence |-> confidence,
     price_data |-> price_data, validation |-> validation,
     alternative |-> AltContract, outcome |-> outcome]

Opportunities ==
    { Opp(60, "BUY_CALL", "ok", "valid", "filled"),
      Opp(75, "BUY_CALL", "ok", "valid", "filled"),
      Opp(75, "BUY_PUT", "ok", "alternative", "simulated"),
      Opp(75, "BUY_CALL", "ok", "valid", "rejected") }

SeqsUpTo(S, n) == UNION { [1..k -> S] : k \in 0..n }

\* total_equity reported by get_account_balances; it stays on one side of
\* the 25000 threshold during a run
AccountValues == {12000, 30000}

\* symbols of the positions get_account_positions reports
OptSymA ==
    EncodeOptionSymbol([underlying |-> SPY,
                        expiration |-> [year |-> 2025, month |-> 3, day |-> 21],
                        option_type |-> "call", strike |-> 450000])

StockSym == <<"A", "A", "P", "L">>

\* decision: evaluate_position says SELL; HOLD also stands for the branches
\* that leave the position alone (no quote, no price data)
BrokerPositions ==
    [symbol : {OptSymA}, quantity : {1}, decision : {"HOLD", "SELL"}]
    \cup [symbol : {StockSym}, quantity : {1}, decision : {"SELL"}]

PositionLists ==
    { ps \in SeqsUpTo(BrokerPositions, MaxPositions) :
        \A i, j \in 1..Len(ps) : i # j => ps[i].symbol # ps[j].symbol }

NoSingleton == [loaded |-> FALSE, trades |-> <<>>, day_trades |-> <<>>]

NoCall ==
    [op |-> "none", symbol |-> <<>>, contracts |-> 0, disk |-> "ok",
     writes |-> 0, crashed |-> FALSE, at |-> 0,
     writing |-> [trades |-> <<>>, day_trades |-> <<>>]]

\* no call yet; count = -1 stands for "nothing returned"
NoTrackerCall ==
    [op |-> "none", symbol |-> <<>>, contracts |-> 0, count |-> -1,
     ret |-> FALSE, last_count |-> -1, added |-> {}, trips |-> {},
     writes |-> 0]

StoreIdle == st_call = NoCall /\ st_saved = NoSave /\ tk_call = NoTrackerCall

NoTrade ==
    [via |-> "none", contract |-> <<>>, market_open |-> FALSE,
     result |-> NoResult, requests |-> <<>>, placed |-> FALSE,
     mutated |-> FALSE, returned |-> <<>>]

ExecIdle == ex_trade = NoTrade

\* gradio_interface as imported: bot_running = False, bot_thread = None
NoBot ==
    [bot_running |-> FALSE, bot_thread |-> 0, threads |-> <<>>,
     joining |-> FALSE, last |-> "none"]

BotIdle == bot = NoBot

LedgerInit ==
    /\ now = 0
    /\ file = NoFile
    /\ singleton = NoSingleton
    /\ total_equity \in AccountValues
    /\ StoreIdle
    /\ ExecIdle
    /\ BotIdle
    /\ appended = 0
    /\ closes = <<>>
    /\ last_append = NoAppend
    /\ cdts = <<>>
    /\ order_effect = NoOrder

\* get_trade_tracker(): the module singleton, created on first use
get_trade_tracker ==
    IF singleton.loaded
    THEN [trades |-> singleton.trades, day_trades |-> singleton.day_trades,
          file |-> file, disk |-> "ok",
          ret |-> FALSE, count |-> 0, result |-> NoResult,
          hist |-> EmptyHistory]
    ELSE NewTradeTracker(file, EmptyHistory, now)

SetHistory(W) ==
    /\ closes' = W.hist.closes
    /\ last_append' = W.hist.last_append
    /\ cdts' = W.hist.cdts
    /\ order_effect' = W.hist.order_effect

\* find_trading_opportunities -> process_opportunities(opportunities, client)
RunOpportunities(oppLists) ==
    \E opps \in oppLists, market_open \in BOOLEAN :
      LET W == process_opportunities(get_trade_tracker, opps, now,
                                     total_equity, market_open)
      IN  /\ appended + W.hist.appends <= MaxRecords
          /\ appended' = appended + W.hist.appends
          /\ singleton' = [loaded |-> TRUE, trades |-> W.trades,
                           day_trades |-> W.day_trades]
          /\ file' = W.file
          /\ SetHistory(W)
          /\ UNCHANGED <<now, total_equity, codecVars, configVars, botVars, gwVars, storeVars, execVars>>

\* the scheduled manage_positions(tradier_client, ...)
RunManagePositions(positionLists) ==
    \E positions \in positionLists :
      LET W == manage_positions(file, EmptyHistory, positions, now)
      IN  /\ appended + W.hist.appends <= MaxRecords
          /\ \A s \in DOMAIN W.trades : W.trades[s].contracts <= MaxHeld
          /\ appended' = appended + W.hist.appends
          /\ file' = W.file
          /\ SetHistory(W)
          /\ UNCHANGED <<now, singleton, total_equity, codecVars, configVars, botVars, gwVars, storeVars, execVars>>

Advance(step, limit) ==
    /\ now + step <= limit
    /\ now' = now + step
    /\ UNCHANGED <<file, singleton, total_equity, appended, closes, last_append, cdts,
                   order_effect, codecVars, configVars, botVars, gwVars, storeVars, execVars>>

ProcessOpportunities ==
    RunOpportunities(SeqsUpTo(Opportunities, MaxOpps))

ManagePositions == RunManagePositions(PositionLists)

Tick == Advance(1, MaxTime)

\* Scheduler runs that span the rolling window: one call per opportunity,
\* the clock advancing a calendar day at a time
WindowOpportunities ==
    RunOpportunities(SeqsUpTo({Opp(75, "BUY_CALL", "ok", "valid", "filled")}, MaxOpps))

NextDay == Advance(TicksPerDay, MaxWindowTime)

MAX_RETRIES == 3
RETRY_DELAY_SECONDS == 2

\* config.py: USE_SANDBOX = True, ENABLE_SANDBOX_FALLBACK = True,
\* MAX_RETRIES = 3
ConfigAsShipped ==
    /\ USE_SANDBOX = TRUE
    /\ ENABLE_SANDBOX_FALLBACK = TRUE
    /\ max_retries = MAX_RETRIES

NoRequest == [option_symbol |-> <<>>, symbol |-> <<>>]

\* an entry of an option chain or of a lookup answer
Option(symbol, option_type, strike) ==
    [symbol |-> symbol, option_type |-> option_type, strike |-> strike]

NoChain ==
    [op |-> "none", requested |-> Option(<<>>, "", 0), options |-> <<>>,
     lookup |-> <<>>, is_valid |-> FALSE, alternative |-> <<>>,
     submitted |-> <<>>]

NoRequestLoop ==
    [op |-> "none", resps |-> <<>>, waits |-> <<>>, result |-> NoResult,
     running |-> FALSE]

GwIdle ==
    /\ gw_pc = "idle"
    /\ gw_req = NoRequest
    /\ gw_option_symbol = <<>>
    /\ gw_attempt = 0
    /\ gw_posts = 0
    /\ gw_gets = 0
    /\ gw_waits = <<>>
    /\ gw_resps = <<>>
    /\ gw_unresolved = FALSE
    /\ gw_order_result = NoResult
    /\ gw_result = NoResult
    /\ gw_chain = NoChain
    /\ rq_call = NoRequestLoop

(***************************************************************************)
(* Brokerage client (class TradierClient) and the market_data lookups      *)
(***************************************************************************)

RECURSIVE Pow2(_)
Pow2(n) == IF n <= 0 THEN 1 ELSE 2 * Pow2(n - 1)

\* the same pause before every retry
BackoffWaitFixed(attempt) == RETRY_DELAY_SECONDS

\* wait_time = RETRY_DELAY_SECONDS * (2 ** attempt)
BackoffWait(attempt) == RETRY_DELAY_SECONDS * Pow2(attempt)

March21 == [year |-> 2025, month |-> 3, day |-> 21]

OptionOf(option_type, strike) ==
    Option(EncodeOptionSymbol([underlying |-> SPY, expiration |-> March21,
                               option_type |-> option_type, strike |-> strike]),
           option_type, strike)

\* market_data.get_option_chain: the options of the answer split into calls
\* and puts; every failure (no symbol, no data, retries used up) gives the
\* same dictionary with both lists empty
get_option_chain(symbol, options) ==
    LET answer == IF symbol = <<>> THEN <<>> ELSE options
    IN  [calls |-> SelectSeq(answer, LAMBDA o : o.option_type = "call"),
         puts  |-> SelectSeq(answer, LAMBDA o : o.option_type = "put")]

RECURSIVE ClosestStrike(_, _, _)
\* the closest-strike loop of validate_option_symbol: the first entry with the
\* smallest distance to strike_price, starting from closest_option = best
ClosestStrike(side, strike_price, best) ==
    IF side = <<>> THEN best
    ELSE LET o    == Head(side)
             diff == IF o.strike >= strike_price THEN o.strike - strike_price
                     ELSE strike_price - o.strike
             bdiff == IF best.strike >= strike_price
                      THEN best.strike - strike_price
                      ELSE strike_price - best.strike
         IN  IF best.symbol = <<>> \/ diff < bdiff
             THEN ClosestStrike(Tail(side), strike_price, o)
             ELSE ClosestStrike(Tail(side), strike_price, best)

Validation(is_valid, valid_alternative) ==
    [is_valid |-> is_valid, valid_alternative |-> valid_alternative]

\* market_data.validate_option_symbol; options is what the chain endpoint
\* answers.  valid_alternative = <<>> stands for None.  get_option_chain
\* always returns a dictionary holding 'calls' and 'puts', so of the chain
\* checks only the empty-side check can fire.
validate_option_symbol(option_symbol, underlying_symbol, options) ==
    LET underlying ==
            IF underlying_symbol = <<>>
            THEN Slice(option_symbol, 0, FirstDigit(option_symbol) - 1)
            ELSE underlying_symbol
        parsed == ParseOptionSymbol(option_symbol, underlying)
        option_chain == get_option_chain(underlying, options)
        chain_side == IF parsed.option_type = "call"
                      THEN option_chain.calls ELSE option_chain.puts
        closest_option == ClosestStrike(chain_side, parsed.strike,
                                        Option(<<>>, "", 0))
    IN  IF ~parsed.ok THEN Validation(FALSE, <<>>)
        ELSE IF USE_SANDBOX /\ ENABLE_SANDBOX_FALLBACK
        THEN Validation(TRUE, option_symbol)
        ELSE IF chain_side = <<>>
        THEN IF USE_SANDBOX THEN Validation(TRUE, option_symbol)
             ELSE Validation(FALSE, <<>>)
        ELSE IF \E i \in 1..Len(chain_side) : chain_side[i].symbol = option_symbol
        THEN Validation(TRUE, option_symbol)
        ELSE Validation(FALSE, closest_option.symbol)

\* datetime.now() + 30 days, as get_expirations formats it
SimulatedExpiration == [year |-> 2025, month |-> 4, day |-> 20]

\* TradierClient.get_expirations; answer.ok: the endpoint delivered an
\* 'expirations' object holding 'date', answer.dates is that list
get_expirations(answer) ==
    IF answer.ok THEN answer.dates
    ELSE IF USE_SANDBOX THEN <<SimulatedExpiration>> ELSE <<>>

\* strike_prices of _generate_simulated_options for current_price = 100.00,
\* in thousandths
SimulatedStrikes == <<90000, 95000, 100000, 105000, 110000>>

RECURSIVE SimulatedOptionsFrom(_, _, _)
SimulatedOptionsFrom(symbol, expiration, strikes) ==
    IF strikes = <<>> THEN <<>>
    ELSE LET x(option_type) ==
                 [underlying |-> symbol, expiration |-> expiration,
                  option_type |-> option_type, strike |-> Head(strikes)]
         IN  << Option(SimulatedOptionSymbol(x("call")), "call", Head(strikes)),
                Option(SimulatedOptionSymbol(x("put")), "put", Head(strikes)) >>
             \o SimulatedOptionsFrom(symbol, expiration, Tail(strikes))

_generate_simulated_options(symbol, expiration) ==
    SimulatedOptionsFrom(symbol, expiration, SimulatedStrikes)

\* TradierClient.get_option_chains
get_option_chains(symbol, expiration, raw) ==
    LET option_chain == get_option_chain(symbol, raw)
        options == option_chain.calls \o option_chain.puts
    IN  IF options # <<>> THEN options
        ELSE IF USE_SANDBOX THEN _generate_simulated_options(symbol, expiration)
        ELSE <<>>

\* TradierClient._simulate_option_order_success
_simulate_option_order_success == Result("", "filled", TRUE, "")

FirstOfType(option_chain, option_type_str) ==
    LET hits == SelectSeq(option_chain, LAMBDA o : o.option_type = option_type_str)
    IN  IF hits = <<>> THEN Option(<<>>, "", 0) ELSE Head(hits)

Resolution(returned, result, option_symbol, symbol, unresolved) ==
    [returned |-> returned, result |-> result, option_symbol |-> option_symbol,
     symbol |-> symbol, unresolved |-> unresolved]

\* place_option_order up to the point where order_data is built.  The answers
\* of the collaborators are inputs: valid_options from lookup_option_symbols,
\* the expirations answer, the options of the chain endpoint.  The parse of
\* the sandbox branch only fills the parameters of the lookup request.
ResolveOptionSymbol(req, valid_options, expirations_answer, chain_options) ==
    IF req.option_symbol = <<>>
    THEN Resolution(TRUE, Result("Option symbol is required", "", FALSE, ""),
                    <<>>, req.symbol, FALSE)
    ELSE
      LET option_symbol == req.option_symbol
          symbol == IF req.symbol = <<>>
                    THEN Slice(option_symbol, 0, FirstDigit(option_symbol) - 1)
                    ELSE req.symbol
          simulated == Resolution(TRUE, _simulate_option_order_success,
                                  option_symbol, symbol, TRUE)
      IN  IF USE_SANDBOX
          THEN IF valid_options # <<>>
               THEN Resolution(FALSE, NoResult, valid_options[1].symbol, symbol, FALSE)
               ELSE LET expirations == get_expirations(expirations_answer)
                    IN  IF expirations = <<>> THEN simulated
                        ELSE
                          LET option_chain ==
                                  get_option_chains(symbol, expirations[1], chain_options)
                              option_type_str ==
                                  IF \E i \in 1..Len(option_symbol) : option_symbol[i] = "C"
                                  THEN "call" ELSE "put"
                              valid_option == FirstOfType(option_chain, option_type_str)
                          IN  IF option_chain = <<>> THEN simulated
                              ELSE IF valid_option.symbol # <<>>
                              THEN Resolution(FALSE, NoResult, valid_option.symbol,
                                              symbol, FALSE)
                              ELSE simulated
          ELSE LET v == validate_option_symbol(option_symbol, symbol, chain_options)
               IN  IF v.is_valid
                   THEN Resolution(FALSE, NoResult, option_symbol, symbol, FALSE)
                   ELSE IF v.valid_alternative # <<>>
                   THEN Resolution(FALSE, NoResult, v.valid_alternative, symbol, FALSE)
                   ELSE Resolution(TRUE,
                                   Result("Option symbol not available for trading",
                                          "rejected", FALSE, ""),
                                   option_symbol, symbol, TRUE)

\* ---- place_order ----
\* order_data of place_option_order for a market order (price is None)
OrderData(symbol, option_symbol) ==
    [class |-> "option", symbol |-> symbol, option_symbol |-> option_symbol,
     side |-> "buy_to_open", quantity |-> 1, type |-> "market", duration |-> "day"]

RequiredFields(order_data) ==
    IF "class" \in DOMAIN order_data /\ order_data["class"] = "option"
    THEN {"class", "symbol", "option_symbol", "side", "quantity", "type", "duration"}
    ELSE {"symbol", "side", "quantity", "type", "duration"}

\* An answer to POST /accounts/{id}/orders.  code 0: no HTTP answer at all
\* (timeout, connection error).  body, for code 200: "order" = an order with
\* an id, "order_noid" = an order without id, "other" = JSON without 'order',
\* "malformed" = 'order' is not an object; for code 400: "fault" = JSON with
\* fault.message, "other" = anything else.
Answer(code, body) == [code |-> code, body |-> body]

\* code 0: no HTTP answer arrived (requests raised a RequestException that
\* is not an HTTPError: connection refused, reset, timed out); body
\* "accepted" when the broker had received the POST and taken the order
\* before the connection failed
PostAnswers ==
    { Answer(200, "order"), Answer(200, "order_noid"), Answer(200, "other"),
      Answer(200, "malformed"), Answer(400, "fault"), Answer(400, "other"),
      Answer(404, ""), Answer(429, ""), Answer(503, ""), Answer(0, ""),
      Answer(0, "accepted") }

\* str(e) of the HTTPError raised by raise_for_status, or of the
\* RequestException
HttpErrorText(resp) ==
    CASE resp.code = 0   -> "Connection error"
      [] resp.code = 400 -> "400 Client Error"
      [] resp.code = 404 -> "404 Client Error"
      [] resp.code = 429 -> "429 Client Error"
      [] OTHER           -> "5xx Server Error"

\* the message the broker puts into the body of a 400 answer
ServerFaultMessage == "Invalid option symbol"

FaultMessageDropped(resp) == HttpErrorText(resp)

\* error_data.get('fault', {}).get('message', str(e)), str(e) too when the
\* body is not JSON
FaultMessage(resp) ==
    IF resp.body = "fault" THEN ServerFaultMessage ELSE HttpErrorText(resp)

NoRetryableStatus == {}

RetryableStatus == {429, 500, 502, 503, 504}

Attempt(kind, result, wait) == [kind |-> kind, result |-> result, wait |-> wait]

\* the order the broker confirmed: data['order']
BrokerOrder == Result("", "ok", FALSE, "")

\* one pass through the retry loop of place_order, given the answer to its
\* POST.  kind: "status" = confirmed, check the order status and return it;
\* "return" = return result; "retry" = sleep wait seconds and go on;
\* "raise" = an exception other than RequestException leaves place_order
place_order_attempt(attempt, resp) ==
    IF resp.code = 200
    THEN CASE resp.body = "order"      -> Attempt("status", BrokerOrder, 0)
           [] resp.body = "order_noid" -> Attempt("return", BrokerOrder, 0)
           [] resp.body = "malformed"  -> Attempt("raise", NoResult, 0)
           [] OTHER -> Attempt("return",
                               Result("Unexpected response format", "rejected",
                                      FALSE, ""), 0)
    ELSE IF resp.code # 0
    THEN IF resp.code = 400
         THEN Attempt("return",
                      Result("Order validation error", "rejected", FALSE,
                             FaultMessage(resp)), 0)
         ELSE IF attempt < max_retries - 1 /\ resp.code \in RetryableStatus
         THEN Attempt("retry", NoResult, BackoffWait(attempt))
         ELSE Attempt("return",
                      Result("Failed to place order", "rejected", FALSE,
                             HttpErrorText(resp)), 0)
    ELSE IF attempt < max_retries - 1
         THEN Attempt("retry", NoResult, BackoffWait(attempt))
         ELSE Attempt("return",
                      Result("Failed to place order", "rejected", FALSE,
                             HttpErrorText(resp)), 0)

MaxRetriesExceeded ==
    Result("Maximum retry attempts exceeded", "rejected", FALSE, "")

\* the sleeps of a get_* retry loop that issued n requests
RECURSIVE BackoffWaits(_)
BackoffWaits(n) ==
    IF n <= 1 THEN <<>> ELSE Append(BackoffWaits(n - 1), BackoffWait(n - 2))

\* "if USE_SANDBOX and 'error' in result" of place_option_order
FallsBackAnyEndpoint(result) == result.error # ""

FallsBack(result) == USE_SANDBOX /\ result.error # ""

\* ---- the calls the coordinator can make ----
OptSymMalformed == <<"S", "P", "Y", "C">>

OrderRequests ==
    { [option_symbol |-> OptSymA, symbol |-> SPY],
      [option_symbol |-> OptSymA, symbol |-> <<>>],
      [option_symbol |-> <<>>, symbol |-> OptSymA],
      [option_symbol |-> OptSymMalformed, symbol |-> SPY] }

\* what lookup_option_symbols returns
LookupAnswers == { <<>>, <<OptionOf("call", 450000)>> }

ExpirationAnswers ==
    { [ok |-> TRUE, dates |-> <<March21>>], [ok |-> TRUE, dates |-> <<>>],
      [ok |-> FALSE, dates |-> <<>>] }

\* the options the chain endpoint delivers
ChainAnswers ==
    { <<>>,
      <<OptionOf("call", 100000), OptionOf("call", 450000), OptionOf("put", 450000)>>,
      <<OptionOf("call", 100000), OptionOf("call", 455000)>>,
      <<OptionOf("put", 450000)>> }

\* place_option_order, from the call to the submission of order_data
PlaceOptionOrder ==
    /\ gw_pc \in {"idle", "done"}
    /\ \E req \in OrderRequests, valid_options \in LookupAnswers,
          expirations_answer \in ExpirationAnswers, chain_options \in ChainAnswers :
         LET r == ResolveOptionSymbol(req, valid_options, expirations_answer,
                                      chain_options)
         IN  /\ gw_req' = req
             /\ gw_option_symbol' = r.option_symbol
             /\ gw_unresolved' = r.unresolved
             /\ gw_result' = r.result
             /\ gw_pc' = IF r.returned THEN "done" ELSE "submit"
    /\ gw_attempt' = 0
    /\ gw_posts' = 0
    /\ gw_gets' = 0
    /\ gw_waits' = <<>>
    /\ gw_resps' = <<>>
    /\ gw_order_result' = NoResult
    /\ UNCHANGED <<gw_chain, rq_call, codecVars, ledgerVars, configVars, botVars, storeVars, execVars>>

\* a loop that makes a pass whatever the count
RangeNeverEmpty(n) == FALSE

\* "for attempt in range(MAX_RETRIES)" makes no pass
RangeEmpty(n) == n <= 0

\* place_order, up to the retry loop
PlaceOrder ==
    /\ gw_pc = "submit"
    /\ LET symbol == IF gw_req.symbol = <<>>
                     THEN Slice(gw_req.option_symbol, 0,
                                FirstDigit(gw_req.option_symbol) - 1)
                     ELSE gw_req.symbol
           order_data == OrderData(symbol, gw_option_symbol)
           missing == RequiredFields(order_data) \ DOMAIN order_data
       IN  IF missing # {}
           THEN /\ gw_order_result' =
                       Result("Missing required field", "rejected", FALSE, "")
                /\ gw_pc' = "placed"
           ELSE IF RangeEmpty(max_retries)
           THEN /\ gw_order_result' = MaxRetriesExceeded
                /\ gw_pc' = "placed"
           ELSE /\ gw_order_result' = gw_order_result
                /\ gw_pc' = "post"
    /\ UNCHANGED <<gw_req, gw_option_symbol, gw_attempt, gw_posts, gw_gets,
                   gw_waits, gw_resps, gw_unresolved, gw_result,
                   gw_chain, rq_call, codecVars, ledgerVars, configVars, botVars, storeVars, execVars>>

\* one pass through the retry loop: the POST, its answer, what follows
Post ==
    /\ gw_pc = "post"
    /\ \E resp \in PostAnswers :
         LET step == place_order_attempt(gw_attempt, resp)
         IN  /\ gw_posts' = gw_posts + 1
             /\ gw_resps' = Append(gw_resps, resp)
             /\ CASE step.kind = "retry" ->
                       /\ gw_waits' = Append(gw_waits, step.wait)
                       /\ gw_attempt' = gw_attempt + 1
                       /\ IF gw_attempt + 1 < max_retries
                          THEN gw_pc' = "post" /\ gw_order_result' = gw_order_result
                          ELSE gw_pc' = "placed" /\ gw_order_result' = MaxRetriesExceeded
                  [] step.kind = "status" ->
                       /\ gw_pc' = "status"
                       /\ gw_order_result' = step.result
                       /\ UNCHANGED <<gw_waits, gw_attempt>>
                  [] step.kind = "raise" ->
                       /\ gw_pc' = "raised"
                       /\ gw_order_result' = step.result
                       /\ UNCHANGED <<gw_waits, gw_attempt>>
                  [] OTHER ->
                       /\ gw_pc' = "placed"
                       /\ gw_order_result' = step.result
                       /\ UNCHANGED <<gw_waits, gw_attempt>>
    /\ UNCHANGED <<gw_req, gw_option_symbol, gw_gets, gw_unresolved, gw_result,
                   gw_chain, rq_call, codecVars, ledgerVars, configVars, botVars, storeVars, execVars>>

\* time.sleep(1) and get_order_status(order_id), whose answer is only logged:
\* it issues n GETs, the last one answered unless all MAX_RETRIES failed
OrderStatus ==
    /\ gw_pc = "status"
    /\ \E n \in 1..max_retries :
         /\ gw_gets' = n
         /\ gw_waits' = Append(gw_waits, 1) \o BackoffWaits(n)
    /\ gw_pc' = "placed"
    /\ UNCHANGED <<gw_req, gw_option_symbol, gw_attempt, gw_posts, gw_resps,
                   gw_unresolved, gw_order_result, gw_result,
                   gw_chain, rq_call, codecVars, ledgerVars, configVars, botVars, storeVars, execVars>>

\* place_option_order after place_order has returned or raised
ReturnOrder ==
    /\ gw_pc \in {"placed", "raised"}
    /\ gw_result' =
         IF gw_pc = "raised"
         THEN IF USE_SANDBOX THEN _simulate_option_order_success
              ELSE Result("Failed to place order", "rejected", FALSE, "exception")
         ELSE IF FallsBack(gw_order_result) THEN _simulate_option_order_success
              ELSE gw_order_result
    /\ gw_pc' = "done"
    /\ UNCHANGED <<gw_req, gw_option_symbol, gw_attempt, gw_posts, gw_gets,
                   gw_waits, gw_resps, gw_unresolved, gw_order_result,
                   gw_chain, rq_call, codecVars, ledgerVars, configVars, botVars, storeVars, execVars>>

Init == LedgerInit /\ CodecIdle /\ ConfigAsShipped /\ GwIdle

Next == ProcessOpportunities \/ ManagePositions \/ Tick

Spec == Init /\ [][Next]_vars

LedgerIdle ==
    /\ now = 0
    /\ file = NoFile
    /\ singleton = NoSingleton
    /\ total_equity = 0
    /\ StoreIdle
    /\ ExecIdle
    /\ BotIdle
    /\ appended = 0
    /\ closes = <<>>
    /\ last_append = NoAppend
    /\ cdts = <<>>
    /\ order_effect = NoOrder

InitCodec == CodecInit /\ LedgerIdle /\ ConfigAsShipped /\ GwIdle

NextCodec == Encode \/ EncodeSimulated \/ Decode

SpecCodec == InitCodec /\ [][NextCodec]_vars

\* the position-management path alone: one tracker instance per call
NextPositions == ManagePositions \/ Tick

SpecPositions == Init /\ [][NextPositions]_vars

\* the opportunity path over the length of the rolling window
NextWindow == WindowOpportunities \/ NextDay

SpecWindow == Init /\ [][NextWindow]_vars

\* the brokerage client on its own, under every setting of the two flags
InitGateway ==
    /\ LedgerIdle /\ CodecIdle /\ GwIdle
    /\ USE_SANDBOX \in BOOLEAN
    /\ ENABLE_SANDBOX_FALLBACK \in BOOLEAN
    /\ max_retries = MAX_RETRIES

NextGateway == PlaceOptionOrder \/ PlaceOrder \/ Post \/ OrderStatus \/ ReturnOrder

SpecGateway == InitGateway /\ [][NextGateway]_vars

(***************************************************************************)
(* The ledger and its data file: a long-lived tracker instance (the        *)
(* module singleton, main's and the control surface's trade_tracker), the  *)
(* per-call instances of the scheduler, restarts and failing writes        *)
(***************************************************************************)
MaxStoreRecords == 1
MaxContracts == 1

DiskOutcomes == {"ok", "fail", "partial", "crash"}

\* TradeTracker.get_status, as far as the ledger goes (days_to_clear is a
\* figure computed for the display)
\* clear_date = exit_time + timedelta(days=7);
\* max(0, (clear_date - datetime.now()).days)
DaysToClear(exit_time, t) == Max(0, (exit_time + WindowTicks - t) \div TicksPerDay)

get_status(W, t) ==
    LET W1 == cleanup_expired_day_trades(W, t)
        annotated == [i \in 1..Len(W1.day_trades) |->
                        [W1.day_trades[i] EXCEPT
                            !.days_to_clear = DaysToClear(W1.day_trades[i].exit_time, t)]]
    IN  [W1 EXCEPT !.day_trades = annotated, !.count = Len(annotated)]

\* TradeTracker.reset_day_trades
reset_day_trades(W, t) == get_status(save_data([W EXCEPT !.day_trades = <<>>]), t)

\* the long-lived instance of the running process
Tracker(disk) ==
    [trades |-> singleton.trades, day_trades |-> singleton.day_trades,
     file |-> file, disk |-> disk, ret |-> FALSE, count |-> 0,
     result |-> NoResult, hist |-> EmptyHistory]

Image(W) == [trades |-> W.trades, day_trades |-> W.day_trades]

\* The call op(symbol, contracts) left the instance as W.  When the
\* process stopped inside a write ("crash") its memory is gone.
Called(op, symbol, contracts, disk, W, keep) ==
    LET crashed == disk = "crash" /\ W.hist.writes > 0
    IN  /\ appended + W.hist.appends <= MaxStoreRecords
        /\ appended' = appended + W.hist.appends
        /\ file' = W.file
        /\ singleton' = IF crashed THEN NoSingleton
                        ELSE IF keep THEN singleton
                        ELSE [loaded |-> TRUE, trades |-> W.trades,
                              day_trades |-> W.day_trades]
        /\ st_call' = [op |-> op, symbol |-> symbol, contracts |-> contracts,
                       disk |-> disk, writes |-> W.hist.writes,
                       crashed |-> crashed, at |-> now,
                       writing |-> IF crashed THEN Image(W) ELSE Image(NoSave)]
        /\ st_saved' = IF W.hist.saved.written THEN W.hist.saved ELSE st_saved
        /\ UNCHANGED <<now, total_equity, closes, last_append, cdts, order_effect,
                       codecVars, configVars, botVars, gwVars, execVars, tk_call>>

\* the process starts: TradeTracker(max_trades=MAX_DAILY_TRADES)
Construct ==
    /\ ~singleton.loaded
    /\ \E disk \in DiskOutcomes :
         Called("construct", <<>>, 0, disk,
                TradeTrackerOn(file, disk, EmptyHistory, now), FALSE)

\* the process ends
Stop ==
    /\ singleton.loaded
    /\ singleton' = NoSingleton
    /\ st_call' = NoCall
    /\ UNCHANGED <<now, file, total_equity, appended, closes, last_append, cdts,
                   order_effect, codecVars, configVars, botVars, gwVars, st_saved, execVars,
                   tk_call>>

AddPosition ==
    /\ singleton.loaded
    /\ \E disk \in DiskOutcomes, contracts \in 1..MaxContracts :
         LET W0 == Tracker(disk)
             held == IF OptSymA \in DOMAIN W0.trades
                     THEN W0.trades[OptSymA].contracts ELSE 0
         IN  /\ held + contracts <= MaxContracts
             /\ Called("add_position", OptSymA, contracts, disk,
                       add_position(W0, OptSymA, contracts, now, NoOptionData), FALSE)

ClosePosition ==
    /\ singleton.loaded
    /\ \E disk \in DiskOutcomes, contracts \in 1..MaxContracts :
         LET W0 == Tracker(disk)
         IN  Called("close_position", OptSymA, contracts, disk,
                    close_position(W0, OptSymA, contracts, now), FALSE)

AddDayTrade ==
    /\ singleton.loaded
    /\ \E disk \in DiskOutcomes :
         LET W0 == Tracker(disk)
         IN  Called("add_day_trade", SPY, 1, disk,
                    add_day_trade(W0, SPY, 1, now, now), FALSE)

ResetDayTrades ==
    /\ singleton.loaded
    /\ \E disk \in DiskOutcomes :
         LET W0 == Tracker(disk)
         IN  Called("reset_day_trades", <<>>, 0, disk,
                    reset_day_trades(W0, now), FALSE)

GetStatus ==
    /\ singleton.loaded
    /\ \E disk \in DiskOutcomes :
         LET W0 == Tracker(disk)
         IN  Called("get_status", <<>>, 0, disk, get_status(W0, now), FALSE)

\* morning_analysis / midday_analysis after an order went through:
\* TradeTracker(max_trades=MAX_DAILY_TRADES).add_position(option_symbol, 1, ...)
\* on an instance of its own, while the long-lived instance exists
PerCallAddPosition ==
    /\ singleton.loaded
    /\ LET W0 == NewTradeTracker(file, EmptyHistory, now)
           held == IF OptSymA \in DOMAIN W0.trades
                   THEN W0.trades[OptSymA].contracts ELSE 0
       IN  /\ held + 1 <= MaxContracts
           /\ Called("per_call_add_position", OptSymA, 1, "ok",
                     add_position(W0, OptSymA, 1, now, NoOptionData), TRUE)

\* the data file is damaged while the process is down
CorruptFile ==
    /\ ~singleton.loaded
    /\ file.exists /\ file.corrupt = ""
    /\ \E kind \in {"json", "trades", "day_trades"} :
         /\ kind = "trades" => DOMAIN file.trades # {}
         /\ kind = "day_trades" => file.day_trades # <<>>
         /\ file' = [file EXCEPT !.corrupt = kind]
    /\ UNCHANGED <<now, singleton, total_equity, appended, closes, last_append,
                   cdts, order_effect, codecVars, configVars, botVars, gwVars, storeVars, execVars>>

\* the clock moves on until the records of today have left the window
WindowPasses == Advance(WindowTicks + 1, WindowTicks + 1)

InitStore == LedgerIdle /\ CodecIdle /\ ConfigAsShipped /\ GwIdle

NextStore ==
    \/ Construct \/ Stop \/ AddPosition \/ ClosePosition \/ AddDayTrade
    \/ ResetDayTrades \/ GetStatus \/ PerCallAddPosition \/ CorruptFile
    \/ WindowPasses

SpecStore == InitStore /\ [][NextStore]_vars

(***************************************************************************)
(* Properties                                                              *)
(***************************************************************************)
\* number of records of a day-trade list still inside the rolling window at t
LiveCount(exits, t) ==
    Cardinality({i \in 1..Len(exits) : exits[i] + WindowDays * TicksPerDay > t})

FileExits == [i \in 1..Len(file.day_trades) |-> file.day_trades[i].exit_time[2]]

SingletonExits ==
    [i \in 1..Len(singleton.day_trades) |-> singleton.day_trades[i].exit_time]

\* C1: while PDT applies (equity below 25000), after any sequence of opens
\* through process_opportunities and closes through manage_positions, the
\* number of non-expired day-trade records never exceeds the limit.
PDTLimitRespected ==
    total_equity < 25000 =>
        /\ LiveCount(FileExits, now) <= max_trades
        /\ LiveCount(SingletonExits, now) <= max_trades

SameCalendarDate(a, b) == (a \div TicksPerDay) = (b \div TicksPerDay)

\* C4: closing an open position appends exactly one day-trade record and
\* returns true when entry and exit fall on the same calendar date, and
\* appends none and returns false when they fall on different dates.
DayTradeDetection ==
    \A i \in 1..Len(closes) :
        closes[i].was_open =>
            IF SameCalendarDate(closes[i].entry_time, closes[i].exit_time)
            THEN closes[i].appended = 1 /\ closes[i].ret = TRUE
            ELSE closes[i].appended = 0 /\ closes[i].ret = FALSE

\* C4 witness: a position opened on one day was closed on a later day, in a
\* ledger that already holds the record of a same-day round trip
CrossDayCloseSeen ==
    /\ \E i \in 1..Len(closes) :
          /\ closes[i].was_open
          /\ closes[i].held = closes[i].contracts
          /\ ~SameCalendarDate(closes[i].entry_time, closes[i].exit_time)
          /\ closes[i].appended = 0
    /\ Len(file.day_trades) >= 1

OldestExit(day_trades) ==
    CHOOSE e \in {day_trades[i].exit_time : i \in 1..Len(day_trades)} :
        \A j \in 1..Len(day_trades) : e <= day_trades[j].exit_time

BeforeExits(c) == [i \in 1..Len(c.before) |-> c.before[i].exit_time]

\* C5: once `limit` non-expired day-trade records exist, can_day_trade()
\* returns false on every call until the clock passes the point where the
\* oldest record leaves the window; from then on, with no new day trades,
\* it returns true.
PDTEnforcement ==
    \A i \in 1..Len(cdts) :
        LET c == cdts[i] IN
        /\ LiveCount(BeforeExits(c), c.at) >= max_trades => c.result = FALSE
        /\ (/\ Len(c.before) = max_trades
            /\ c.at > OldestExit(c.before) + WindowDays * TicksPerDay)
           => c.result = TRUE

\* C5 witness: the ledger held `limit` records, the oldest has left the
\* window, and can_day_trade() answered true
LimitReachedThenCleared ==
    \E i \in 1..Len(cdts) :
        /\ Len(cdts[i].before) = max_trades
        /\ cdts[i].at > OldestExit(cdts[i].before) + WindowDays * TicksPerDay
        /\ cdts[i].result = TRUE

\* C8: a day-trade record is appended only by the close of a position that
\* was opened the same calendar date, never when an order merely opens a
\* position.
OnlySameDayRoundTrips ==
    last_append.by # "none" =>
        /\ last_append.by = "close_position"
        /\ last_append.side # "buy_to_open"
        /\ last_append.same_day_open

\* C9: when the order result carries an error, the open-position map and
\* the day-trade list are left as they were before the order.
RejectedOrderLeavesLedger ==
    (order_effect.placed /\ order_effect.error) => ~order_effect.mutated

\* C2: with ENABLE_SANDBOX_FALLBACK disabled place_option_order never returns
\* a simulated fill, whatever USE_SANDBOX is; a call whose instrument could
\* not be resolved or whose submission failed returns an error
FallbackGating ==
    ~ENABLE_SANDBOX_FALLBACK =>
        /\ ~gw_result.simulated
        /\ (gw_pc = "done" /\ (gw_unresolved \/ gw_order_result.error # ""))
              => gw_result.error # ""

\* C3: against the production endpoint no place_option_order call returns a
\* synthesized result, whatever ENABLE_SANDBOX_FALLBACK is and whatever the
\* chain, validation and submission answers are
NoSimulationInProduction == ~USE_SANDBOX => ~gw_result.simulated

\* a production call with the fallback flag set whose submission failed has
\* returned the rejection
ProductionFailureReturned ==
    /\ ~USE_SANDBOX /\ ENABLE_SANDBOX_FALLBACK
    /\ gw_pc = "done"
    /\ gw_posts > 0 /\ gw_order_result.error # ""
    /\ gw_result.status = "rejected"

All503(resps) == resps # <<>> /\ \A i \in 1..Len(resps) : resps[i].code = 503

ValidationErrorTerminal ==
    (gw_resps # <<>> /\ gw_resps[1].code = 400) =>
        /\ gw_pc \in {"placed", "done"}
        /\ gw_posts = 1 /\ gw_waits = <<>> /\ gw_gets = 0
        /\ gw_order_result.status = "rejected"
        /\ gw_order_result.error = "Order validation error"
        /\ gw_resps[1].body = "fault" => gw_order_result.reason = ServerFaultMessage

FaultMessageReturned ==
    /\ gw_pc = "placed"
    /\ gw_resps = <<Answer(400, "fault")>>
    /\ gw_posts = 1 /\ gw_waits = <<>>
    /\ gw_order_result.reason = ServerFaultMessage

\* C10: decoding the encoded option symbol of a valid instrument gives back
\* its underlying, expiration, type and strike
RoundTrip ==
    cx_pc = "decoded" =>
        /\ cx_out.ok
        /\ cx_out.underlying = cx_in.underlying
        /\ cx_out.expiration = cx_in.expiration
        /\ cx_out.option_type = cx_in.option_type
        /\ cx_out.strike = cx_in.strike

\* C11: the encoded symbol is underlying + YYMMDD + C|P + the strike times
\* 1000 zero-padded to 8 digits, a 15-character suffix after the underlying
CanonicalEncoding ==
    cx_pc \in {"encoded", "decoded"} =>
        /\ Len(cx_sym) = Len(cx_in.underlying) + 15
        /\ cx_sym = cx_in.underlying
                    \o Pad(cx_in.expiration.year % 100, 2)
                    \o Pad(cx_in.expiration.month, 2)
                    \o Pad(cx_in.expiration.day, 2)
                    \o (IF cx_in.option_type = "call" THEN <<"C">> ELSE <<"P">>)
                    \o Pad(cx_in.strike, 8)

\* C12: when an instance of its own has added a position to the data file
\* and the long-lived instance then completes a call that writes the file,
\* the position is still in the file, unless that call closed it.
NoLostUpdate ==
    [][(/\ st_call.op = "per_call_add_position"
        /\ st_call'.op \in {"add_position", "close_position", "add_day_trade",
                            "reset_day_trades", "get_status"}
        /\ st_call'.writes > 0
        /\ st_call'.disk = "ok")
       => \/ st_call.symbol \in DOMAIN file'.trades
          \/ st_call'.op = "close_position" /\ st_call'.symbol = st_call.symbol]_vars

\* C13: when the process stops inside the write of save_data, the data file
\* afterwards holds the complete snapshot it held before or the complete
\* snapshot that was being written.
AtomicSnapshotWrite ==
    [][st_call'.crashed
       => \/ file' = file
          \/ file' = ToJson(st_call'.writing.trades, st_call'.writing.day_trades)]_vars

\* C14: whenever a call changes the position map or the day-trade list of a
\* live instance and its write succeeds, the data file afterwards is the
\* snapshot of that instance's memory.
PersistedEqualsMemory ==
    [][(/\ singleton.loaded /\ singleton'.loaded
        /\ singleton' # singleton
        /\ st_call'.disk = "ok")
       => file' = ToJson(singleton'.trades, singleton'.day_trades)]_vars

\* a same-day close has appended a day trade and the file holds it
CloseSnapshotWritten ==
    /\ st_call.op = "close_position" /\ st_call.disk = "ok" /\ st_call.writes > 0
    /\ singleton.loaded /\ singleton.day_trades # <<>>
    /\ file = ToJson(singleton.trades, singleton.day_trades)
    /\ Len(file.day_trades) = Len(singleton.day_trades)

\* C15: a ledger constructed over an intact data file holds the positions of
\* the last snapshot written, with their contracts and entry times, and those
\* of its day-trade records that are still inside the window.
SaveLoadIdentity ==
    [][(/\ st_call'.op = "construct" /\ singleton'.loaded
        /\ file.exists /\ file.corrupt = "")
       => /\ st_saved.written
          /\ singleton'.trades = st_saved.trades
          /\ singleton'.day_trades =
                SelectSeq(st_saved.day_trades,
                          LAMBDA dt : dt.exit_time > now - WindowTicks)]_vars

\* a restart has brought back a position and a day-trade record
RestartRestoresLedger ==
    /\ st_call.op = "construct" /\ st_call.writes = 0 /\ singleton.loaded
    /\ DOMAIN singleton.trades # {} /\ singleton.day_trades # <<>>
    /\ singleton.trades = st_saved.trades
    /\ singleton.day_trades = st_saved.day_trades

\* C16: when the data file exists and json.load or a timestamp conversion
\* fails on it, in the positions or in the day trades, the construction
\* completes with an empty position map and an empty day-trade list.
CorruptFileLoadsEmpty ==
    [][(st_call'.op = "construct" /\ file.exists /\ file.corrupt # "")
       => /\ singleton'.loaded
          /\ singleton'.trades = <<>>
          /\ singleton'.day_trades = <<>>]_vars

\* the file held a position and a day trade whose timestamp does not parse,
\* so the failure came after the positions had been converted
LoadedEmptyAfterLateFailure ==
    /\ st_call.op = "construct" /\ singleton.loaded
    /\ file.exists /\ file.corrupt = "day_trades"
    /\ DOMAIN file.trades # {} /\ file.day_trades # <<>>
    /\ singleton.trades = <<>> /\ singleton.day_trades = <<>>

\* the records as they were created, without the figure get_status adds
Unannotated(day_trades) ==
    [i \in 1..Len(day_trades) |->
        [day_trades[i] EXCEPT !.days_to_clear = NoDaysToClear]]

\* C17: when the write of save_data fails, the call of the live instance
\* still returns and its change to the position map or the day-trade list
\* stays in memory.
WriteFailureKeepsMutation ==
    [][(/\ singleton.loaded /\ now' = now
        /\ st_call'.disk \in {"fail", "partial"}
        /\ st_call'.writes > 0)
       => LET op == st_call'.op
              s == st_call'.symbol
              held == IF s \in DOMAIN singleton.trades
                      THEN singleton.trades[s].contracts ELSE 0
          IN  /\ singleton'.loaded
              /\ op = "add_position" =>
                    /\ s \in DOMAIN singleton'.trades
                    /\ singleton'.trades[s].contracts = held + st_call'.contracts
              /\ op = "close_position" =>
                    \/ s \notin DOMAIN singleton'.trades
                    \/ singleton'.trades[s].contracts = held - st_call'.contracts
              /\ op = "add_day_trade" =>
                    /\ Len(singleton'.day_trades) = Len(singleton.day_trades) + 1
                    /\ singleton'.day_trades[Len(singleton'.day_trades)].symbol = s
              /\ op = "reset_day_trades" => singleton'.day_trades = <<>>
              /\ op = "get_status" =>
                    Unannotated(singleton'.day_trades) =
                       Unannotated(SelectSeq(singleton.day_trades,
                                   LAMBDA dt : dt.exit_time > now - WindowTicks))]_vars

\* add_position has returned after a failed write: the position is in memory
\* and not in the data file
PositionKeptAfterFailedWrite ==
    /\ st_call.op = "add_position" /\ st_call.disk = "fail" /\ st_call.writes > 0
    /\ singleton.loaded
    /\ st_call.symbol \in DOMAIN singleton.trades
    /\ st_call.symbol \notin DOMAIN file.trades

(***************************************************************************)
(* Trade execution: execute_opportunity_trade called on its own and from   *)
(* process_opportunities                                                   *)
(***************************************************************************)
\* "AAPL250C00"
ShortContract == <<"A", "A", "P", "L", "2", "5", "0", "C", "0", "0">>

\* "XLU_250413C00008300"
SeparatorContract ==
    <<"X", "L", "U", "_", "2", "5", "0", "4", "1", "3", "C",
      "0", "0", "0", "0", "8", "3", "0", "0">>

\* the contracts execute_opportunity_trade is handed: a well-formed one,
\* one that is too short, one with a separator, '' and None
Contracts == {OptSymA, ShortContract, SeparatorContract, <<>>, None}

\* opportunities as in Opportunities, and one for which the chain offers an
\* alternative whose symbol is too short
ExecOpportunities ==
    Opportunities
    \cup { [Opp(75, "BUY_PUT", "ok", "alternative", "filled")
              EXCEPT !.alternative = ShortContract],
           Opp(75, "BUY_CALL", "short", "valid", "filled"),
           Opp(75, "BUY_CALL", "ok", "unavailable", "filled") }

Attempted(via, contract, market_open, W0, W, touched, returned) ==
    /\ appended + W.hist.appends <= MaxRecords
    /\ appended' = appended + W.hist.appends
    /\ singleton' = IF touched
                    THEN [loaded |-> TRUE, trades |-> W.trades,
                          day_trades |-> W.day_trades]
                    ELSE singleton
    /\ file' = IF touched THEN W.file ELSE file
    /\ SetHistory(W)
    /\ ex_trade' = [via |-> via, contract |-> contract,
                    market_open |-> market_open, result |-> W.result,
                    requests |-> W.hist.requests,
                    placed |-> W.hist.order_effect.placed,
                    mutated |-> Mutated(W0, W),
                    returned |-> returned]
    /\ UNCHANGED <<now, total_equity, codecVars, configVars, botVars, gwVars, storeVars>>

\* execute_opportunity_trade(ticker, contract, signal, tradier_client, 1);
\* get_trade_tracker() is reached only after an order went through
ExecuteOpportunityTrade ==
    /\ appended <= MaxRecords
    /\ \E contract \in Contracts, market_open \in BOOLEAN, outcome \in BrokerOutcomes :
         LET W0 == get_trade_tracker
             W  == execute_opportunity_trade(W0, now, SPY, contract, "BUY_CALL", 1,
                                             TRUE, market_open, outcome)
         IN  Attempted("execute_opportunity_trade", contract, market_open, W0, W,
                       W.hist.order_effect.mutated,
                       <<[ticker |-> SPY, outcome |-> W.result.status]>>)

\* process_opportunities([opportunity], tradier_client)
ProcessOpportunity ==
    /\ appended <= MaxRecords
    /\ \E o \in ExecOpportunities, market_open \in BOOLEAN :
         LET W0 == get_trade_tracker
             W  == process_opportunities(W0, <<o>>, now, total_equity, market_open)
             contract == IF o.validation = "alternative" THEN o.alternative
                         ELSE ContractFor(o.ticker, o.signal)
         IN  Attempted("process_opportunities", contract, market_open, W0, W, TRUE,
                       W.hist.executed_trades)

InitExecute == Init

NextExecute == ExecuteOpportunityTrade \/ ProcessOpportunity \/ Tick

SpecExecute == InitExecute /\ [][NextExecute]_vars

\* C18: when a trade attempt ends with the rejection of the contract's
\* shape, no request to the broker or the market-data service has gone out
\* for it.
ShapeCheckBeforeRequests ==
    ex_trade.result.error = "Invalid option contract format"
        => ex_trade.requests = <<>>

\* underlying + YYMMDD + C|P + eight strike digits
WellFormedContract(c) ==
    /\ c # None
    /\ Len(c) >= 16
    /\ \A i \in (Len(c) - 7)..Len(c) : IsDigit(c[i])
    /\ c[Len(c) - 8] \in {"C", "P"}
    /\ \A i \in (Len(c) - 14)..(Len(c) - 9) : IsDigit(c[i])
    /\ \A i \in 1..(Len(c) - 15) : ~IsDigit(c[i]) /\ c[i] # "_"

\* C19: with the market open, execute_opportunity_trade returns the rejection
\* 'Invalid option contract format' exactly for the contracts that are None,
\* empty, too short or not of the shape underlying + YYMMDD + C|P + digits.
InvalidFormatRejection ==
    (ex_trade.via = "execute_opportunity_trade" /\ ex_trade.market_open)
        => (ex_trade.result.error = "Invalid option contract format"
              <=> ~WellFormedContract(ex_trade.contract))

\* C20: when is_market_open() says closed, execute_opportunity_trade returns
\* the rejection 'Market is closed', no order has been submitted and the
\* ledger and its file are as before.
MarketClosedRejection ==
    [][(/\ ex_trade'.via = "execute_opportunity_trade"
        /\ ~ex_trade'.market_open
        /\ now' = now)
       => /\ ex_trade'.result.error = "Market is closed"
          /\ ex_trade'.result.status = "rejected"
          /\ ~ex_trade'.placed
          /\ ex_trade'.requests = <<>>
          /\ singleton' = singleton
          /\ file' = file
          /\ order_effect' = NoOrder]_vars

\* a well-formed contract was refused at a closed market while the ledger
\* held a day trade
RejectedAtClosedMarket ==
    /\ ex_trade.via = "execute_opportunity_trade" /\ ~ex_trade.market_open
    /\ ex_trade.contract = OptSymA
    /\ ex_trade.result.error = "Market is closed"
    /\ singleton.loaded /\ singleton.day_trades # <<>>

EverySignalHasOutcome ==
    ex_trade.via # "none" => Len(ex_trade.returned) = 1

(***************************************************************************)
(* Resolution of an option symbol against the chain: validate_option_symbol *)
(* called on its own (process_opportunities) and place_option_order up to  *)
(* the order_data it submits                                               *)
(***************************************************************************)
MaxChain == 2

\* the symbols asked for: SPY 2025-03-21, call 450, put 450, call 452
RequestedOptions ==
    { OptionOf("call", 450000), OptionOf("put", 450000), OptionOf("call", 452000) }

\* entries the chain endpoint may deliver for SPY 2025-03-21
ChainEntries ==
    { OptionOf("call", 440000), OptionOf("call", 450000), OptionOf("call", 455000),
      OptionOf("call", 460000), OptionOf("put", 450000) }

ValidateChains == SeqsUpTo(ChainEntries, MaxChain)

\* is_valid, valid_alternative, _ = validate_option_symbol(contract, ticker)
ValidateOptionSymbol ==
    /\ gw_pc = "idle"
    /\ \E requested \in RequestedOptions, options \in ValidateChains :
         LET v == validate_option_symbol(requested.symbol, SPY, options)
         IN  gw_chain' = [op |-> "validate_option_symbol", requested |-> requested,
                          options |-> options, lookup |-> <<>>,
                          is_valid |-> v.is_valid,
                          alternative |-> v.valid_alternative,
                          submitted |-> <<>>]
    /\ UNCHANGED <<gw_pc, gw_req, gw_option_symbol, gw_attempt, gw_posts, gw_gets,
                   gw_waits, gw_resps, gw_unresolved, gw_order_result, gw_result,
                   rq_call, codecVars, ledgerVars, configVars, botVars, storeVars, execVars>>

\* place_option_order(option_symbol=..., symbol='SPY', ...) until order_data
\* is handed to place_order; submitted = <<>> when it returns before that
ResolveOrderSymbol ==
    /\ gw_pc = "idle"
    /\ \E requested \in RequestedOptions, valid_options \in LookupAnswers,
          expirations_answer \in ExpirationAnswers, chain_options \in ChainAnswers :
         LET req == [option_symbol |-> requested.symbol, symbol |-> SPY]
             r == ResolveOptionSymbol(req, valid_options, expirations_answer,
                                      chain_options)
         IN  gw_chain' = [op |-> "place_option_order", requested |-> requested,
                          options |-> chain_options, lookup |-> valid_options,
                          is_valid |-> ~r.unresolved, alternative |-> <<>>,
                          submitted |-> IF r.returned THEN <<>>
                                        ELSE OrderData(r.symbol, r.option_symbol).option_symbol]
    /\ UNCHANGED <<gw_pc, gw_req, gw_option_symbol, gw_attempt, gw_posts, gw_gets,
                   gw_waits, gw_resps, gw_unresolved, gw_order_result, gw_result,
                   rq_call, codecVars, ledgerVars, configVars, botVars, storeVars, execVars>>

InitChain == InitGateway

NextChain == ValidateOptionSymbol \/ ResolveOrderSymbol

SpecChain == InitChain /\ [][NextChain]_vars

\* the entries of a chain answer for one option type
ChainSide(options, option_type) ==
    SelectSeq(options, LAMBDA o : o.option_type = option_type)

StrikeDistance(a, b) == IF a >= b THEN a - b ELSE b - a

\* C23: when the chain side of the requested option type is not empty and
\* does not hold the requested symbol, validate_option_symbol answers
\* is_valid = False with an alternative of that side whose strike is nearest
\* to the requested one; it answers without alternative only for an empty side.
ClosestAlternative ==
    LET side == ChainSide(gw_chain.options, gw_chain.requested.option_type)
        strike == gw_chain.requested.strike
    IN  gw_chain.op = "validate_option_symbol"
        => /\ (/\ side # <<>>
               /\ \A i \in 1..Len(side) : side[i].symbol # gw_chain.requested.symbol)
              => /\ ~gw_chain.is_valid
                 /\ \E i \in 1..Len(side) :
                      /\ side[i].symbol = gw_chain.alternative
                      /\ \A j \in 1..Len(side) :
                           StrikeDistance(side[i].strike, strike)
                              <= StrikeDistance(side[j].strike, strike)
           /\ (~gw_chain.is_valid /\ gw_chain.alternative = <<>>) => side = <<>>

\* C24: when the requested option symbol is an entry of the live chain, the
\* order place_option_order submits carries that same symbol, whether the
\* client runs against the sandbox or against production.
ExactMatchKeepsSymbol ==
    (/\ gw_chain.op = "place_option_order"
     /\ gw_chain.submitted # <<>>
     /\ \E i \in 1..Len(gw_chain.options) :
          gw_chain.options[i].symbol = gw_chain.requested.symbol)
    => gw_chain.submitted = gw_chain.requested.symbol

(***************************************************************************)
(* The tracker's operations one by one on the module singleton: two        *)
(* symbols, lots added to an open position, partial closes, the status     *)
(* queries and the clock running past the window                           *)
(***************************************************************************)
\* the lots add_position and close_position are called with: up to MaxHeld
\* contracts of OptSymA with or without parsed option data, one contract
\* of AltContract
TrackerLots ==
    [symbol : {OptSymA}, contracts : 1..MaxHeld,
     option_data : {NoOptionData, ParseBrokerSymbol(OptSymA)}]
    \cup [symbol : {AltContract}, contracts : {1}, option_data : {NoOptionData}]

StatusQueries == {"get_day_trade_count", "can_day_trade", "get_status"}

Held(trades, symbol) ==
    IF symbol \in DOMAIN trades THEN trades[symbol].contracts ELSE 0

\* history: <<symbol, n>> where n day-trade records were appended by the
\* closes of the position in symbol since it was last opened
Trips(op, symbol, held, appends) ==
    IF op = "add_position" /\ held = 0
    THEN { r \in tk_call.trips : r[1] # symbol } \cup {<<symbol, 0>>}
    ELSE IF op = "close_position" /\ held # 0
    THEN { IF r[1] = symbol THEN <<symbol, r[2] + appends>> ELSE r :
              r \in tk_call.trips }
    ELSE tk_call.trips

\* The call op(symbol, contracts) left the singleton as W; added holds the
\* (symbol, date) pairs of the add_position calls on the open positions.
TrackerCalled(op, symbol, contracts, W, added) ==
    /\ Len(W.day_trades) <= MaxStoreRecords + 1
    /\ file' = W.file
    /\ singleton' = [loaded |-> TRUE, trades |-> W.trades,
                     day_trades |-> W.day_trades]
    /\ tk_call' = [op |-> op, symbol |-> symbol, contracts |-> contracts,
                   count |-> IF op \in StatusQueries THEN W.count ELSE -1,
                   ret |-> W.ret,
                   last_count |-> IF op \in StatusQueries THEN W.count
                                  ELSE IF W.hist.appends > 0 THEN -1
                                  ELSE tk_call.last_count,
                   added |-> added,
                   trips |-> Trips(op, symbol,
                                   Held(get_trade_tracker.trades, symbol),
                                   W.hist.appends),
                   writes |-> W.hist.writes]
    /\ UNCHANGED <<now, total_equity, appended, closes, last_append, cdts,
                   order_effect, codecVars, configVars, botVars, gwVars, execVars,
                   st_call, st_saved>>

TrackerAddPosition ==
    /\ now <= TicksPerDay
    /\ \E lot \in TrackerLots :
         LET W0 == get_trade_tracker
         IN  /\ Held(W0.trades, lot.symbol) + lot.contracts <= MaxHeld
             /\ TrackerCalled("add_position", lot.symbol, lot.contracts,
                              add_position(W0, lot.symbol, lot.contracts, now,
                                           lot.option_data),
                              tk_call.added \cup {<<lot.symbol, DateOf(now)>>})

TrackerClosePosition ==
    /\ now <= TicksPerDay
    /\ \E lot \in TrackerLots :
         LET W == close_position(get_trade_tracker, lot.symbol, lot.contracts, now)
         IN  TrackerCalled("close_position", lot.symbol, lot.contracts, W,
                           IF lot.symbol \in DOMAIN W.trades THEN tk_call.added
                           ELSE { a \in tk_call.added : a[1] # lot.symbol })

TrackerAddDayTrade ==
    /\ now <= MaxTime + WindowTicks + 1
    /\ TrackerCalled("add_day_trade", SPY, 1,
                     add_day_trade(get_trade_tracker, SPY, 1, now, now),
                     tk_call.added)

GetDayTradeCount ==
    /\ now <= MaxTime + WindowTicks + 1
    /\ TrackerCalled("get_day_trade_count", <<>>, 0,
                     get_day_trade_count(get_trade_tracker, now), tk_call.added)

CanDayTrade ==
    /\ now <= MaxTime + WindowTicks + 1
    /\ TrackerCalled("can_day_trade", <<>>, 0,
                     can_day_trade(get_trade_tracker, now), tk_call.added)

TrackerGetStatus ==
    /\ now <= MaxTime + WindowTicks + 1
    /\ TrackerCalled("get_status", <<>>, 0,
                     get_status(get_trade_tracker, now), tk_call.added)

\* the process ends and starts again: the next call loads the data file
Restart ==
    /\ singleton.loaded
    /\ singleton' = NoSingleton
    /\ tk_call' = [tk_call EXCEPT !.op = "restart", !.count = -1]
    /\ UNCHANGED <<now, file, total_equity, appended, closes, last_append, cdts,
                   order_effect, codecVars, configVars, botVars, gwVars, execVars,
                   st_call, st_saved>>

\* the clock moves on by a window and a tick
TrackerWindowPasses ==
    /\ now <= MaxTime
    /\ Advance(WindowTicks + 1, MaxTime + WindowTicks + 1)

InitTracker == LedgerIdle /\ CodecIdle /\ ConfigAsShipped /\ GwIdle

\* the next calendar day begins
TrackerNextDay ==
    /\ now < TicksPerDay
    /\ Advance(TicksPerDay, TicksPerDay)

\* positions: lots added and closed on one day and the next
NextTracker == TrackerAddPosition \/ TrackerClosePosition \/ TrackerNextDay

SpecTracker == InitTracker /\ [][NextTracker]_vars

InitStatus == InitTracker

\* day trades, the status queries and the window
NextStatus ==
    \/ TrackerAddDayTrade \/ GetDayTradeCount \/ CanDayTrade \/ TrackerGetStatus
    \/ Restart \/ Tick \/ TrackerWindowPasses

SpecStatus == InitStatus /\ [][NextStatus]_vars

\* a call of op on a symbol that was open when the call began
CallOnOpen(op) ==
    /\ tk_call'.op = op
    /\ now' = now
    /\ singleton.loaded
    /\ tk_call'.symbol \in DOMAIN singleton.trades

\* every position but the one of the call is what it was
OthersUntouched ==
    \A s \in DOMAIN singleton.trades \ {tk_call'.symbol} :
        s \in DOMAIN singleton'.trades /\ singleton'.trades[s] = singleton.trades[s]

\* C25: add_position on a symbol that is already open adds the contracts to
\* the position and keeps the entry timestamp and the option data of the
\* first open; no second position appears and no other symbol changes.
MergeKeepsFirstOpen ==
    [][CallOnOpen("add_position")
       => LET s == tk_call'.symbol
          IN  /\ DOMAIN singleton'.trades = DOMAIN singleton.trades
              /\ singleton'.trades[s].contracts
                    = singleton.trades[s].contracts + tk_call'.contracts
              /\ singleton'.trades[s].entry_time = singleton.trades[s].entry_time
              /\ singleton'.trades[s].option_data = singleton.trades[s].option_data
              /\ OthersUntouched]_vars

\* a lot added the day after the open, next to a position in another symbol
LotAddedNextDay ==
    /\ tk_call.op = "add_position" /\ tk_call.symbol = OptSymA
    /\ now = TicksPerDay
    /\ {<<OptSymA, 0>>, <<OptSymA, 1>>} \subseteq tk_call.added
    /\ AltContract \in DOMAIN singleton.trades
    /\ OptSymA \in DOMAIN singleton.trades
    /\ singleton.trades[OptSymA].contracts = 2
    /\ singleton.trades[OptSymA].entry_time = 0

\* C26: whenever close_position for a symbol falls on the calendar date of
\* some add_position for that symbol, a day-trade record is appended.
SameDayLotCounted ==
    [][(/\ CallOnOpen("close_position")
        /\ <<tk_call'.symbol, DateOf(now)>> \in tk_call.added)
       => Len(singleton'.day_trades) = Len(singleton.day_trades) + 1]_vars

\* C27: per symbol the position goes NONE -> OPEN -> (PARTIAL)* -> CLOSED ->
\* NONE: add_position on a symbol that is not held opens it, a close of fewer
\* contracts than held leaves held minus closed, a close of at least the
\* held contracts removes the symbol, a close of a symbol that is not held
\* changes nothing.
PositionLifecycle ==
    [][(/\ tk_call'.op \in {"add_position", "close_position"}
        /\ now' = now /\ singleton.loaded)
       => LET s == tk_call'.symbol
              c == tk_call'.contracts
              held == Held(singleton.trades, s)
          IN  /\ OthersUntouched
              /\ (tk_call'.op = "add_position" /\ held = 0)
                    => /\ s \in DOMAIN singleton'.trades
                       /\ singleton'.trades[s].contracts = c
                       /\ singleton'.trades[s].entry_time = now
              /\ (tk_call'.op = "close_position" /\ held = 0)
                    => singleton'.trades = singleton.trades
              /\ (tk_call'.op = "close_position" /\ 0 < held /\ held <= c)
                    => s \notin DOMAIN singleton'.trades
              /\ (tk_call'.op = "close_position" /\ c < held)
                    => /\ s \in DOMAIN singleton'.trades
                       /\ singleton'.trades[s].contracts = held - c
                       /\ singleton'.trades[s].entry_time
                             = singleton.trades[s].entry_time]_vars

\* one of two held contracts was closed
PartiallyClosed ==
    /\ tk_call.op = "close_position" /\ tk_call.symbol = OptSymA
    /\ tk_call.contracts = 1
    /\ OptSymA \in DOMAIN singleton.trades
    /\ singleton.trades[OptSymA].contracts = 1

\* exit times of the records the tracker holds, in memory or, before the
\* first call of a process, in the data file
HeldExits == IF singleton.loaded THEN SingletonExits ELSE FileExits

Range(f) == { f[i] : i \in DOMAIN f }

\* C30: a status query (get_day_trade_count, can_day_trade, get_status)
\* evicts before it counts: the count it returns is the number of records
\* whose exit time is later than now minus the window, and those are the
\* records left afterwards; a record once evicted is in neither the memory
\* nor the data file again (only records that exit now are new); without a
\* new day trade between two queries the count does not grow.
EvictThenCount ==
    [][/\ (tk_call'.op \in StatusQueries /\ now' = now)
          => /\ tk_call'.count = LiveCount(HeldExits, now)
             /\ Len(singleton'.day_trades) = tk_call'.count
             /\ \A i \in 1..Len(singleton'.day_trades) :
                  singleton'.day_trades[i].exit_time > now - WindowTicks
             /\ tk_call.last_count # -1 => tk_call'.count <= tk_call.last_count
       /\ Range(SingletonExits') \subseteq
             Range(SingletonExits) \cup Range(FileExits) \cup {now}
       /\ Range(FileExits') \subseteq
             Range(FileExits) \cup Range(SingletonExits) \cup {now}]_vars

\* a query found the one record expired, wrote the ledger and returned 0
ExpiredRecordEvicted ==
    /\ tk_call.op = "can_day_trade"
    /\ tk_call.writes > 0
    /\ tk_call.count = 0
    /\ now > WindowTicks
    /\ file.day_trades = <<>>

(***************************************************************************)
(* The retry loops of the gateway's requests, each run to its end on the   *)
(* answers the endpoint gives                                              *)
(***************************************************************************)
\* the operations that GET: TradierClient.get_account_balances,
\* get_account_positions, get_order_status, get_expirations and
\* market_data.get_option_chain, lookup_option_symbols
GetOperations ==
    {"get_account_balances", "get_account_positions", "get_order_status",
     "get_expirations", "get_option_chain", "lookup_option_symbols"}

\* answers to a GET: the expected document, another document, an HTTP error
\* status, or no answer (code 0: timeout, connection error)
GetAnswers ==
    { Answer(200, "data"), Answer(200, "other"), Answer(400, ""), Answer(404, ""),
      Answer(429, ""), Answer(503, ""), Answer(0, "") }

\* One pass of "for attempt in range(MAX_RETRIES)" of a get_* operation:
\* raise_for_status raises for every 4xx and 5xx answer, and the handler
\* "except requests.exceptions.RequestException" sleeps and goes on unless
\* this was the last attempt.
get_attempt(attempt, resp) ==
    IF resp.code = 200
    THEN Attempt("return",
                 Result(IF resp.body = "data" THEN ""
                        ELSE "Unexpected response format", "ok", FALSE, ""), 0)
    ELSE IF attempt < MAX_RETRIES - 1
    THEN Attempt("retry", NoResult, BackoffWait(attempt))
    ELSE Attempt("return",
                 Result("Failed after MAX_RETRIES attempts", "failed", FALSE,
                        HttpErrorText(resp)), 0)

AttemptOf(op, attempt, resp) ==
    IF op = "place_order" THEN place_order_attempt(attempt, resp)
    ELSE get_attempt(attempt, resp)

\* an operation enters its retry loop
BeginRequest ==
    /\ ~rq_call.running
    /\ \E op \in GetOperations \cup {"place_order"} :
         rq_call' = [op |-> op, resps |-> <<>>, waits |-> <<>>,
                     result |-> NoResult, running |-> TRUE]
    /\ UNCHANGED <<gw_pc, gw_req, gw_option_symbol, gw_attempt, gw_posts, gw_gets,
                   gw_waits, gw_resps, gw_unresolved, gw_order_result, gw_result,
                   gw_chain, codecVars, ledgerVars, configVars, botVars, storeVars, execVars>>

\* one pass of the loop: the request of this attempt is answered
Answered ==
    /\ rq_call.running
    /\ \E resp \in (IF rq_call.op = "place_order" THEN PostAnswers ELSE GetAnswers) :
         LET attempt == Len(rq_call.resps)
             step == AttemptOf(rq_call.op, attempt, resp)
             again == step.kind = "retry" /\ attempt + 1 < MAX_RETRIES
         IN  rq_call' = [rq_call EXCEPT
                           !.resps = Append(@, resp),
                           !.waits = IF step.kind = "retry"
                                     THEN Append(@, step.wait) ELSE @,
                           !.running = again,
                           !.result = IF step.kind # "retry" THEN step.result
                                      ELSE IF again THEN NoResult
                                      ELSE MaxRetriesExceeded]
    /\ UNCHANGED <<gw_pc, gw_req, gw_option_symbol, gw_attempt, gw_posts, gw_gets,
                   gw_waits, gw_resps, gw_unresolved, gw_order_result, gw_result,
                   gw_chain, codecVars, ledgerVars, configVars, botVars, storeVars, execVars>>

InitRequests == InitGateway

NextRequests == BeginRequest \/ Answered

SpecRequests == InitRequests /\ [][NextRequests]_vars

\* C28: every gateway operation classifies failures alike: an answer is
\* followed by another attempt only when its status is 429, 500, 502, 503
\* or 504 or when the request failed on the network; any other HTTP error,
\* 400 in particular, ends the operation after a single attempt.
UniformRetryClassification ==
    rq_call.op # "none"
    => /\ \A i \in 1..Len(rq_call.resps) :
            (i < Len(rq_call.resps) \/ rq_call.running)
               => rq_call.resps[i].code \in RetryableStatus \cup {0}
       /\ (rq_call.resps # <<>> /\ rq_call.resps[1].code = 400)
             => Len(rq_call.resps) = 1 /\ ~rq_call.running

(***************************************************************************)
(* The control surface's worker: gradio_interface.start_bot, stop_bot and  *)
(* the loop of bot_thread_func                                             *)
(***************************************************************************)
MaxThreads == 2
MaxPasses == 2

\* a thread of bot_thread_func: pc is "test" at "while bot_running",
\* "tasks" inside the loop body, "sleep" in time.sleep(60), "done" after
\* the loop; passes counts the loop bodies it ran
NewThread == [pc |-> "test", passes |-> 0]

StartBot ==
    /\ ~bot.joining
    /\ IF bot.bot_running
       THEN bot' = [bot EXCEPT !.last = "already running"]
       ELSE /\ Len(bot.threads) < MaxThreads
            /\ bot' = [bot EXCEPT !.bot_running = TRUE,
                                  !.threads = Append(@, NewThread),
                                  !.bot_thread = Len(bot.threads) + 1,
                                  !.last = "started"]
    /\ UNCHANGED <<codecVars, ledgerVars, storeVars, execVars, configVars, gwVars>>

\* stop_bot up to bot_thread.join(timeout=5)
StopBot ==
    /\ ~bot.joining
    /\ IF ~bot.bot_running
       THEN bot' = [bot EXCEPT !.last = "not running"]
       ELSE bot' = [bot EXCEPT !.bot_running = FALSE,
                               !.joining = bot.bot_thread # 0,
                               !.last = "stopping"]
    /\ UNCHANGED <<codecVars, ledgerVars, storeVars, execVars, configVars, gwVars>>

\* join(timeout=5) returns: the thread has ended, or the five seconds ran
\* out while it was in its tasks or in time.sleep(60)
JoinReturns ==
    /\ bot.joining
    /\ bot.threads[bot.bot_thread].pc \in {"done", "tasks", "sleep"}
    /\ bot' = [bot EXCEPT !.joining = FALSE, !.last = "stopped"]
    /\ UNCHANGED <<codecVars, ledgerVars, storeVars, execVars, configVars, gwVars>>

\* while bot_running:
WorkerTest ==
    /\ bot.threads # <<>>
    /\ \E i \in 1..Len(bot.threads) :
         /\ bot.threads[i].pc = "test"
         /\ bot' = [bot EXCEPT !.threads[i].pc =
                       IF bot.bot_running THEN "tasks" ELSE "done"]
    /\ UNCHANGED <<codecVars, ledgerVars, storeVars, execVars, configVars, gwVars>>

\* the loop body up to time.sleep(60)
WorkerTasks ==
    /\ bot.threads # <<>>
    /\ \E i \in 1..Len(bot.threads) :
         /\ bot.threads[i].pc = "tasks"
         /\ bot.threads[i].passes < MaxPasses
         /\ bot' = [bot EXCEPT !.threads[i].pc = "sleep",
                               !.threads[i].passes = @ + 1]
    /\ UNCHANGED <<codecVars, ledgerVars, storeVars, execVars, configVars, gwVars>>

\* time.sleep(60) returns
WorkerWakes ==
    /\ bot.threads # <<>>
    /\ \E i \in 1..Len(bot.threads) :
         /\ bot.threads[i].pc = "sleep"
         /\ bot' = [bot EXCEPT !.threads[i].pc = "test"]
    /\ UNCHANGED <<codecVars, ledgerVars, storeVars, execVars, configVars, gwVars>>

InitBot == InitTracker

NextBot ==
    \/ StartBot \/ StopBot \/ JoinReturns
    \/ WorkerTest \/ WorkerTasks \/ WorkerWakes

SpecBot == InitBot /\ [][NextBot]_vars

\* the threads that have not left the loop of bot_thread_func
LiveWorkers(b) == { i \in 1..Len(b.threads) : b.threads[i].pc # "done" }

\* C29: after any sequence of start_bot and stop_bot calls at most one
\* worker loop is running; start_bot while the bot runs starts no thread;
\* stop_bot leaves bot_running false; a worker started before a stop_bot
\* does not go on with its loop after a later start_bot.
SingleWorkerLoop ==
    [][/\ ~bot'.joining => Cardinality(LiveWorkers(bot')) <= 1
       /\ Len(bot'.threads) > Len(bot.threads) => ~bot.bot_running
       /\ bot'.last \in {"stopping", "stopped", "not running"}
             => ~bot'.bot_running
       /\ \A i \in 1..Len(bot.threads) :
            (bot.threads[i].pc = "test" /\ bot'.threads[i].pc = "tasks")
               => i = bot.bot_thread]_vars

\* C31: a terminal validation rejection from place_order (HTTP 400 or a
\* missing required order field) reaches the caller of place_option_order
\* as status rejected with its reason; it is never replaced by a simulated
\* fill.
ValidationRejectionSurfaced ==
    (/\ gw_pc = "done"
     /\ gw_order_result.error \in {"Order validation error", "Missing required field"})
    => /\ ~gw_result.simulated
       /\ gw_result.status = "rejected"
       /\ gw_result.error = gw_order_result.error
       /\ gw_result.reason = gw_order_result.reason

\* C32: the waits of a retried gateway call are RETRY_DELAY_SECONDS, then
\* double the previous one each time (RETRY_DELAY_SECONDS * 2^attempt,
\* attempt from 0); there is one wait after every attempt but the last of
\* the call, so a call that used all MAX_RETRIES attempts has waited
\* MAX_RETRIES - 1 times and never after its final attempt.
ExponentialBackoff ==
    rq_call.op # "none"
    => /\ \A i \in 1..Len(rq_call.waits) :
            rq_call.waits[i] = IF i = 1 THEN RETRY_DELAY_SECONDS
                               ELSE 2 * rq_call.waits[i - 1]
       /\ Len(rq_call.waits) =
             IF rq_call.running \/ rq_call.resps = <<>> THEN Len(rq_call.resps)
             ELSE Len(rq_call.resps) - 1
       /\ Len(rq_call.resps) <= MAX_RETRIES
       /\ (~rq_call.running /\ Len(rq_call.resps) = MAX_RETRIES)
             => Len(rq_call.waits) = MAX_RETRIES - 1

\* get_account_balances answered 503 on each of its attempts
BalancesGaveUp ==
    /\ rq_call.op = "get_account_balances" /\ ~rq_call.running
    /\ Len(rq_call.resps) = MAX_RETRIES
    /\ \A i \in 1..Len(rq_call.resps) : rq_call.resps[i].code = 503
    /\ rq_call.waits = <<2, 4>>
    /\ rq_call.result.status = "failed"

\* C33: a day-trade record is immutable once created: while the ledger
\* holds it no call changes or adds to its contents, status queries
\* included, and it leaves the list only when it has left the window or
\* through reset_day_trades.
RecordsImmutable ==
    [][(/\ singleton.loaded /\ singleton'.loaded
        /\ st_call'.op # "reset_day_trades")
       => \A i \in 1..Len(singleton.day_trades) :
            singleton.day_trades[i].exit_time > now' - WindowTicks
               => \E j \in 1..Len(singleton'.day_trades) :
                    singleton'.day_trades[j] = singleton.day_trades[i]]_vars

(***************************************************************************)
(* manage_positions on what get_account_positions reports, whatever the    *)
(* quantities                                                              *)
(***************************************************************************)
\* quantity = float(position.get('quantity', 0)): the figure the broker
\* reports, negative for a short position, never checked before it is used
BrokerQuantities == {-1, 1}

\* X990101P00064000: no '2' anywhere in the symbol
OptSymB ==
    EncodeOptionSymbol([underlying |-> <<"X">>,
                        expiration |-> [year |-> 2099, month |-> 1, day |-> 1],
                        option_type |-> "put", strike |-> 64000])

SyncedPositions ==
    [symbol : {OptSymA}, quantity : BrokerQuantities, decision : {"HOLD", "SELL"}]
    \cup [symbol : {OptSymB}, quantity : {1}, decision : {"HOLD"}]

SyncPositions ==
    /\ appended <= MaxStoreRecords
    /\ RunManagePositions(SeqsUpTo(SyncedPositions, 1))

InitSync == Init

NextSync == SyncPositions \/ Tick

SpecSync == InitSync /\ [][NextSync]_vars

(***************************************************************************)
(* C34: in every reachable state each entry of the open-position map holds *)
(* contracts > 0, whatever add_position and close_position calls the       *)
(* coordinator has made (fills, positions synced from the broker, closes)  *)
ContractsPositive ==
    /\ \A s \in DOMAIN singleton.trades : singleton.trades[s].contracts > 0
    /\ \A s \in DOMAIN file.trades : file.trades[s].contracts > 0

(***************************************************************************)
(* C35: the option data manage_positions derives from a broker position's  *)
(* symbol when it first records the position (underlying, expiration,      *)
(* call/put, strike) equals what validate_option_symbol decodes from the   *)
(* same symbol, for every well-formed option symbol                        *)
SyncedOptionData ==
    \A s \in DOMAIN file.trades :
        LET decoded == DecodeOptionSymbol(s)
            option_data == file.trades[s].option_data
        IN  decoded.ok =>
              /\ option_data.parsed
              /\ option_data.underlying_symbol = decoded.underlying
              /\ option_data.expiration = decoded.expiration
              /\ option_data.is_call = (decoded.option_type = "call")
              /\ option_data.strike_price = decoded.strike

(***************************************************************************)
(* C36: one place_order call has at most one order accepted by the broker, *)
(* also when a POST the broker had taken failed at the network level and   *)
(* the call sent the POST again                                            *)
OrderAccepted(resp) ==
    \/ resp.code = 200 /\ resp.body \in {"order", "order_noid"}
    \/ resp.code = 0 /\ resp.body = "accepted"

AtMostOneOrderAccepted ==
    Cardinality({i \in 1..Len(gw_resps) : OrderAccepted(gw_resps[i])}) <= 1

(***************************************************************************)
(* C37: a position opened and fully closed on one calendar date through    *)
(* several partial close_position calls counts as one day trade: its       *)
(* closes append one day-trade record for the round trip, not one each     *)
OneDayTradePerRoundTrip ==
    \A r \in tk_call.trips : r[2] <= 1

(***************************************************************************)
(* place_option_order under every retry budget from none to the one        *)
(* shipped; a call that has started keeps running until it returns         *)
(***************************************************************************)
InitRetries ==
    /\ LedgerIdle /\ CodecIdle /\ GwIdle
    /\ USE_SANDBOX = TRUE
    /\ ENABLE_SANDBOX_FALLBACK = TRUE
    /\ max_retries \in 0..MAX_RETRIES

NextRetries == NextGateway

SpecRetries ==
    /\ InitRetries /\ [][NextRetries]_vars
    /\ WF_vars(PlaceOrder) /\ WF_vars(Post) /\ WF_vars(OrderStatus)
    /\ WF_vars(ReturnOrder)

\* an answer after which place_order sends the POST again
Retried(resp) == resp.code = 0 \/ resp.code \in RetryableStatus

\* the requests of the running or last place_order call stay in the budget
RequestsBounded ==
    /\ gw_posts = Len(gw_resps)
    /\ gw_posts <= max_retries
    /\ gw_gets <= max_retries
    /\ \A i \in 1..(Len(gw_resps) - 1) : Retried(gw_resps[i])
    /\ gw_gets > 0 => gw_resps[Len(gw_resps)] = Answer(200, "order")
    /\ (gw_pc = "placed" /\ max_retries = 0) =>
          /\ gw_posts = 0 /\ gw_gets = 0
          /\ gw_order_result.error # "Missing required field"
                => gw_order_result = MaxRetriesExceeded
    /\ gw_pc = "post" => gw_posts < max_retries

\* C38: every call of the gateway ends with a result whatever the broker
\* answers: place_order sends at most MAX_RETRIES POSTs, then at most
\* MAX_RETRIES status checks, sends nothing after the first success or the
\* first terminal failure, and with MAX_RETRIES = 0 returns "Maximum retry
\* attempts exceeded" without a request
GatewayCallTerminates ==
    /\ []RequestsBounded
    /\ (gw_pc = "submit") ~> (gw_pc = "done" /\ gw_result # NoResult)

\* three POSTs answered 503, 429 and with the order, then a status check
OrderAfterTwoRetries ==
    /\ gw_pc = "done"
    /\ max_retries = MAX_RETRIES
    /\ Len(gw_resps) = MAX_RETRIES
    /\ gw_resps[Len(gw_resps)] = Answer(200, "order")
    /\ gw_gets > 0

\* no retry budget: rejected without a request
NoBudgetRejected ==
    /\ gw_pc = "placed"
    /\ max_retries = 0
    /\ gw_order_result = MaxRetriesExceeded
    /\ gw_posts = 0

\* the symbols of the option-chain entries _generate_simulated_options makes
\* up, for an expiration the broker listed or the made-up one
SynthesizedSymbols ==
    { _generate_simulated_options(u, e)[i].symbol :
        u \in Underlyings, e \in {March21, SimulatedExpiration},
        i \in 1..(2 * Len(SimulatedStrikes)) }

(***************************************************************************)
(* C39: the gateway returns synthesized balances, positions, expirations   *)
(* and option-chain entries only when USE_SANDBOX and                      *)
(* ENABLE_SANDBOX_FALLBACK are both true (and only after the real request  *)
(* failed on every attempt or returned no data): an order is never set up  *)
(* on a synthesized chain entry under another setting                      *)
SynthesisGated ==
    (gw_pc # "idle" /\ gw_option_symbol \in SynthesizedSymbols)
        => USE_SANDBOX /\ ENABLE_SANDBOX_FALLBACK

====
